---- MODULE Spec2Model ----
(***************************************************************************)
(* RippleCheck: the symbol index, the bidirectional dependency graph, its  *)
(* incremental maintenance, the startup cache restore and the blast-radius *)
(* traversal, modelled from the TypeScript sources.                        *)
(*                                                                         *)
(* A source text is abstracted to what the analyser reads from it: the     *)
(* named declarations with their signature hashes and the identifier       *)
(* references (owner name -> referenced symbol id).  Every file draws its  *)
(* text from a small menu of such parsed contents.                         *)
(***************************************************************************)
EXTENDS Integers, Sequences, FiniteSets, TLC

VARIABLES
    pc,           \* "off" | "running": whether the extension is activated
    disk,         \* file -> content label on disk ("none" = no such file)
    proj,         \* file -> content label held by the ts-morph Project
    symbolIndex,  \* live SymbolIndex: symbol id -> signatureHash
    forward,      \* live graph.forward: id -> set of ids
    reverse,      \* live graph.reverse: id -> set of ids
    cache,        \* the .blastradius artifacts on disk
    last,         \* the operation that produced the current state
    res,          \* result of the last speculative analysis
    tRoots,       \* traversal input: list of ImpactRoot
    tGraph,       \* traversal input: DependencyGraph
    tRes,         \* traversal output: BlastRadiusResult
    analysisVersion, \* the counter shared by runAnalysis and runInEditorAnalysis
    runs,         \* myVersion -> the analysis started with it and where it stands
    delivered,    \* what was posted to the panel (results and errors), in order
    intent,       \* the ResolvedIntent of the last what-if analysis
    restore,      \* the cache-restore loops of activate, followed file by file
    sig,          \* two type texts and what canonicalizeType made of them
    bfs,          \* one bfsUnlimited and one path walk of buildPaths, step by step
    twin,         \* the live index, graph and project of the run without staged analyses
    gw,           \* graph.json writers: the file and each writer's position and copy
    deb,          \* the debounced document-edit callback: timer, argument, documents
    lc            \* one diffLinesToCharRange call: text, line range, result

vars == <<pc, disk, proj, symbolIndex, forward, reverse, cache, last, res,
          tRoots, tGraph, tRes, analysisVersion, runs, delivered, intent, restore, sig, bfs,
          twin, gw, deb, lc>>

liveVars == <<pc, disk, proj, symbolIndex, forward, reverse, cache, last, res, intent,
             restore, sig>>

\* The variables that only the specifications of single algorithms use.
auxVars == <<bfs, twin, gw, deb, lc>>
bfsRest == <<twin, gw, deb, lc>>
twinRest == <<bfs, gw, deb, lc>>
gwRest == <<bfs, twin, deb, lc>>
debRest == <<bfs, twin, gw, lc>>
lcRest == <<bfs, twin, gw, deb>>
travVars == <<tRoots, tGraph, tRes>>
panelVars == <<analysisVersion, runs, delivered>>

----------------------------------------------------------------------------
(* Universe: files, symbol ids, parsed contents                            *)

Files == {"f1", "f2"}
FileOrder == <<"f1", "f2">>

Names == {"a", "b"}

Ids == {"f1#a", "f1#b", "f2#a", "f2#b"}
IdOrder == <<"f1#a", "f1#b", "f2#a", "f2#b">>

\* makeId: `${filePath}#${name}`
makeId(filePath, name) ==
    CASE filePath = "f1" /\ name = "a" -> "f1#a"
      [] filePath = "f1" /\ name = "b" -> "f1#b"
      [] filePath = "f2" /\ name = "a" -> "f2#a"
      [] filePath = "f2" /\ name = "b" -> "f2#b"

\* SymbolEntry.filePath of the entry stored under an id
FileOf(id) == CHOOSE f \in Files : \E n \in Names : makeId(f, n) = id
\* SymbolEntry.name of the entry stored under an id
NameOf(id) == CHOOSE n \in Names : \E f \in Files : makeId(f, n) = id

NoFile == "none"

\* Parsed contents.  decls: declared name -> signature hash;
\* refs: <<owner name, referenced symbol id>> for every identifier use
\* inside an owner node.
Parsed(k) ==
    CASE k = "K1" -> [decls |-> [n \in {"a", "b"} |-> "h1"],
                      refs  |-> {<<"a", "f2#a">>, <<"b", "f1#a">>}]
      [] k = "K2" -> [decls |-> [n \in {"a", "b"} |-> IF n = "a" THEN "h2" ELSE "h1"],
                      refs  |-> {<<"a", "f2#a">>}]
      [] k = "K3" -> [decls |-> [n \in {"b"} |-> "h1"],
                      refs  |-> {<<"b", "f2#b">>}]
      [] k = "K4" -> [decls |-> [n \in {"a", "b"} |-> "h1"],
                      refs  |-> {<<"a", "f1#a">>, <<"b", "f2#a">>}]
      [] k = "K5" -> [decls |-> [n \in {"a"} |-> "h2"],
                      refs  |-> {<<"a", "f1#b">>}]

\* The texts a file can hold.
Menu(f) ==
    CASE f = "f1" -> {"K1", "K2", "K3"}
      [] f = "f2" -> {"K4", "K5"}

DiskStates == {d \in [Files -> {NoFile, "K1", "K2", "K3", "K4", "K5"}] :
                  \A f \in Files : d[f] = NoFile \/ d[f] \in Menu(f)}

NoProject == [f \in Files |-> NoFile]

----------------------------------------------------------------------------
(* Map helpers (JavaScript Map<string, ...> with an explicit key set)      *)

EmptyMap == [x \in {} |-> {}]

MapHas(m, k) == k \in DOMAIN m
MapGet(m, k) == IF k \in DOMAIN m THEN m[k] ELSE {}
MapSet(m, k, v) == [x \in (DOMAIN m) \cup {k} |-> IF x = k THEN v ELSE m[x]]
MapDelete(m, k) == [x \in (DOMAIN m) \ {k} |-> m[x]]

\* Iteration order of a set of ids.
IdSeq(S) == SelectSeq(IdOrder, LAMBDA x : x \in S)

EmptyGraph == [forward |-> EmptyMap, reverse |-> EmptyMap]

----------------------------------------------------------------------------
(* Reference walker                                                        *)

addEdge_NoReverse(graph, fromId, toId) ==
    [forward |-> MapSet(graph.forward, fromId, MapGet(graph.forward, fromId) \cup {toId}),
     reverse |-> graph.reverse]

addEdge(graph, fromId, toId) ==
    [forward |-> MapSet(graph.forward, fromId, MapGet(graph.forward, fromId) \cup {toId}),
     reverse |-> MapSet(graph.reverse, toId, MapGet(graph.reverse, toId) \cup {fromId})]

\* getOwnerSymbolId: the owner node's id when it is indexed.
\* declarationToSymbolId: the referenced declaration exists in the Project
\* (the type checker resolved it) and its id is indexed.
\* walkNode adds the edge unless referencedId = currentOwner.
ResolvedEdges(filePath, index, project) ==
    IF project[filePath] = NoFile THEN {}
    ELSE {<<makeId(filePath, r[1]), r[2]>> : r \in
            {r \in Parsed(project[filePath]).refs :
                /\ MapHas(index, makeId(filePath, r[1]))
                /\ project[FileOf(r[2])] # NoFile
                /\ NameOf(r[2]) \in DOMAIN Parsed(project[FileOf(r[2])]).decls
                /\ MapHas(index, r[2])
                /\ r[2] # makeId(filePath, r[1])}}

RECURSIVE AddEdges(_, _)
AddEdges(graph, edges) ==
    IF edges = {} THEN graph
    ELSE LET e == CHOOSE x \in edges : TRUE
         IN  AddEdges(addEdge(graph, e[1], e[2]), edges \ {e})

walkSourceFile(filePath, index, project, graph) ==
    AddEdges(graph, ResolvedEdges(filePath, index, project))

----------------------------------------------------------------------------
(* Symbol extraction                                                       *)

\* extractSymbols: one entry per declaration of the parsed file.
extractSymbols(filePath, k) ==
    IF k = NoFile THEN EmptyMap
    ELSE [id \in {makeId(filePath, n) : n \in DOMAIN Parsed(k).decls} |->
            Parsed(k).decls[NameOf(id)]]

reindexSourceFile(filePath, k, index) ==
    LET new == extractSymbols(filePath, k)
    IN  [id \in (DOMAIN index) \cup (DOMAIN new) |->
            IF id \in DOMAIN new THEN new[id] ELSE index[id]]

----------------------------------------------------------------------------
(* Incremental updater                                                     *)

RemoveSymbol_KeepEmptySets(st, symbolId) ==
    LET fwd0 == st.graph.forward
        rev0 == st.graph.reverse
        deps == MapGet(fwd0, symbolId)
        rev1 == [k \in DOMAIN rev0 |-> IF k \in deps THEN rev0[k] \ {symbolId} ELSE rev0[k]]
        fwd1 == MapDelete(fwd0, symbolId)
        owners == MapGet(rev1, symbolId)
        fwd2 == [k \in DOMAIN fwd1 |-> IF k \in owners THEN fwd1[k] \ {symbolId} ELSE fwd1[k]]
    IN  [index |-> MapDelete(st.index, symbolId),
         graph |-> [forward |-> fwd2, reverse |-> MapDelete(rev1, symbolId)]]

\* RemoveSymbol without the clean-up of the owners' forward sets.
RemoveSymbol_OwnEdgesOnly(st, symbolId) ==
    LET fwd0 == st.graph.forward
        rev0 == st.graph.reverse
        hasDeps == MapHas(fwd0, symbolId)
        deps == MapGet(fwd0, symbolId)
        rev1 == IF hasDeps
                THEN [k \in {x \in DOMAIN rev0 :
                                ~(x \in deps /\ rev0[x] \ {symbolId} = {})} |->
                        IF k \in deps THEN rev0[k] \ {symbolId} ELSE rev0[k]]
                ELSE rev0
        fwd1 == IF hasDeps THEN MapDelete(fwd0, symbolId) ELSE fwd0
    IN  [index |-> MapDelete(st.index, symbolId),
         graph |-> [forward |-> fwd1, reverse |-> MapDelete(rev1, symbolId)]]

\* One iteration of removeFileFromGraph's loop over the file's symbols.
RemoveSymbol(st, symbolId) ==
    LET fwd0 == st.graph.forward
        rev0 == st.graph.reverse
        hasDeps == MapHas(fwd0, symbolId)
        deps == MapGet(fwd0, symbolId)
        rev1 == IF hasDeps
                THEN [k \in {x \in DOMAIN rev0 :
                                ~(x \in deps /\ rev0[x] \ {symbolId} = {})} |->
                        IF k \in deps THEN rev0[k] \ {symbolId} ELSE rev0[k]]
                ELSE rev0
        fwd1 == IF hasDeps THEN MapDelete(fwd0, symbolId) ELSE fwd0
        hasOwners == MapHas(rev1, symbolId)
        owners == MapGet(rev1, symbolId)
        fwd2 == IF hasOwners
                THEN [k \in {x \in DOMAIN fwd1 :
                                ~(x \in owners /\ fwd1[x] \ {symbolId} = {})} |->
                        IF k \in owners THEN fwd1[k] \ {symbolId} ELSE fwd1[k]]
                ELSE fwd1
        rev2 == IF hasOwners THEN MapDelete(rev1, symbolId) ELSE rev1
    IN  [index |-> MapDelete(st.index, symbolId),
         graph |-> [forward |-> fwd2, reverse |-> rev2]]

RECURSIVE RemoveSymbols(_, _)
RemoveSymbols(st, ids) ==
    IF ids = <<>> THEN st
    ELSE RemoveSymbols(RemoveSymbol(st, Head(ids)), Tail(ids))

\* removeFileFromGraph: returns the index and the graph after the eviction.
removeFileFromGraph(filePath, index, graph) ==
    LET fileSymbolIds == IdSeq({id \in DOMAIN index : FileOf(id) = filePath})
    IN  RemoveSymbols([index |-> index, graph |-> graph], fileSymbolIds)

----------------------------------------------------------------------------
(* Signature analyzer                                                      *)

snapshotSignatures(filePath, index) ==
    [id \in {x \in DOMAIN index : FileOf(x) = filePath} |-> index[id]]

\* detectSignatureChanges with the `else` of the hash comparison dropped.
detectSignatureChanges_SafeUnconditional(filePath, oldHashes, newIndex) ==
    LET mine == {id \in DOMAIN newIndex : FileOf(id) = filePath}
    IN  [ripple  |-> {id \in mine : MapHas(oldHashes, id) /\ oldHashes[id] # newIndex[id]},
         safe    |-> {id \in mine : MapHas(oldHashes, id)},
         added   |-> {id \in mine : ~MapHas(oldHashes, id)},
         removed |-> {id \in DOMAIN oldHashes : ~MapHas(newIndex, id)}]

detectSignatureChanges(filePath, oldHashes, newIndex) ==
    LET mine == {id \in DOMAIN newIndex : FileOf(id) = filePath}
    IN  [ripple  |-> {id \in mine : MapHas(oldHashes, id) /\ oldHashes[id] # newIndex[id]},
         safe    |-> {id \in mine : MapHas(oldHashes, id) /\ oldHashes[id] = newIndex[id]},
         added   |-> {id \in mine : ~MapHas(oldHashes, id)},
         removed |-> {id \in DOMAIN oldHashes : ~MapHas(newIndex, id)}]

detectGhostSymbols(graph, index) ==
    ((DOMAIN graph.forward) \cup (DOMAIN graph.reverse)) \ (DOMAIN index)

EmptyReport == [ripple |-> {}, safe |-> {}, added |-> {}, removed |-> {}]

----------------------------------------------------------------------------
(* Public handlers of the incremental updater.  A world w is the triple    *)
(* the handlers receive: [index, graph, project].                          *)

\* handleFileChanged(fsPath, newContent, ...): refreshSourceFile with a
\* text always yields a source file (replaceWithText / createSourceFile).
handleFileChanged(fsPath, newContent, w) ==
    LET oldHashes == snapshotSignatures(fsPath, w.index)
        project1  == [w.project EXCEPT ![fsPath] = newContent]
        Walk(ev, index1) ==
            [index |-> index1,
             graph |-> walkSourceFile(fsPath, index1, project1, ev.graph),
             project |-> project1,
             report |-> detectSignatureChanges(fsPath, oldHashes, index1)]
        Reindex(ev) == Walk(ev, reindexSourceFile(fsPath, newContent, ev.index))
    IN  Reindex(removeFileFromGraph(fsPath, w.index, w.graph))

\* handleFileCreated(fsPath, ...): refreshSourceFile without a text reads
\* the file from disk; nothing is evicted first.
handleFileCreated(fsPath, diskNow, w) ==
    LET project1 == [w.project EXCEPT ![fsPath] = diskNow[fsPath]]
        Walk(index1) ==
            [index |-> index1,
             graph |-> walkSourceFile(fsPath, index1, project1, w.graph),
             project |-> project1]
    IN  Walk(reindexSourceFile(fsPath, diskNow[fsPath], w.index))

\* handleFileDeleted(fsPath, ...)
handleFileDeleted(fsPath, w) ==
    LET Forget(ev) == [index |-> ev.index, graph |-> ev.graph,
                       project |-> [w.project EXCEPT ![fsPath] = NoFile]]
    IN  Forget(removeFileFromGraph(fsPath, w.index, w.graph))

\* Symbols of every source file of the project (buildSymbolIndex, and the
\* extraction loop of rebuildInPlace).
RECURSIVE ExtractAll(_, _, _)
ExtractAll(files, project, index) ==
    IF files = <<>> THEN index
    ELSE ExtractAll(Tail(files), project,
                    IF project[Head(files)] = NoFile THEN index
                    ELSE reindexSourceFile(Head(files), project[Head(files)], index))

\* Reference walk of every listed source file (buildReferenceGraph, the
\* walk loop of rebuildInPlace, pass 2 of the cache restore).
RECURSIVE WalkAll(_, _, _, _)
WalkAll(files, index, project, graph) ==
    IF files = <<>> THEN graph
    ELSE WalkAll(Tail(files), index, project,
                 IF project[Head(files)] = NoFile THEN graph
                 ELSE walkSourceFile(Head(files), index, project, graph))

buildSymbolIndex(project) == ExtractAll(FileOrder, project, EmptyMap)
buildReferenceGraph(project, index) == WalkAll(FileOrder, index, project, EmptyGraph)

\* rebuildInPlace up to its persist step: clear, refresh every source file
\* of the project from disk (a file that no longer exists is dropped from
\* the project), re-extract, re-walk.  With fewer than YieldEvery files no
\* yield is taken inside the three loops.
rebuildInPlace(diskNow, w) ==
    LET project1 == [f \in Files |-> IF w.project[f] = NoFile THEN NoFile ELSE diskNow[f]]
        Walk(index1) ==
            [index |-> index1,
             graph |-> WalkAll(FileOrder, index1, project1, EmptyGraph),
             project |-> project1]
    IN  Walk(ExtractAll(FileOrder, project1, EmptyMap))

----------------------------------------------------------------------------
(* Cache layer                                                             *)

\* computeFileHash: sha1 of the file's bytes, '' when it cannot be read.
computeFileHash(diskNow, fsPath) ==
    CASE diskNow[fsPath] = "K1" -> "sha1:K1"
      [] diskNow[fsPath] = "K2" -> "sha1:K2"
      [] diskNow[fsPath] = "K3" -> "sha1:K3"
      [] diskNow[fsPath] = "K4" -> "sha1:K4"
      [] diskNow[fsPath] = "K5" -> "sha1:K5"
      [] OTHER -> ""

\* computeProjectHash: sha256 of tsconfig.json (one configuration here).
computeProjectHash == "sha256:tsconfig"

Range(seq) == {seq[i] : i \in 1..Len(seq)}

\* serializeMap: Map<string, Set<string>> -> Record<string, string[]>
serializeMap(map) == [k \in DOMAIN map |-> IdSeq(map[k])]
\* new Map(Object.entries(rec).map(([k, v]) => [k, new Set(v)]))
deserializeMap(rec) == [k \in DOMAIN rec |-> Range(rec[k])]

EmptySection == [forward |-> EmptyMap, reverse |-> EmptyMap]

\* graph.json.  fmt "empty": the initial `{}`; "flat": {forward, reverse};
\* "sectioned": {present: {forward, reverse}, future: {forward, reverse}}.
EmptyGraphFile == [fmt |-> "empty", flat |-> EmptySection,
                   present |-> EmptySection, future |-> EmptySection]

\* persistDependencyGraph(graph, workspaceRoot, section): read-modify-write
\* of graph.json, always written in the sectioned form.
persistDependencyGraph(stored, graph, section) ==
    LET base == IF stored.fmt = "sectioned" THEN stored
                ELSE IF stored.fmt = "flat"
                     THEN [fmt |-> "sectioned", flat |-> EmptySection,
                           present |-> stored.flat, future |-> EmptySection]
                     ELSE [fmt |-> "sectioned", flat |-> EmptySection,
                           present |-> EmptySection, future |-> EmptySection]
        sec  == [forward |-> serializeMap(graph.forward),
                 reverse |-> serializeMap(graph.reverse)]
    IN  IF section = "present" THEN [base EXCEPT !.present = sec]
        ELSE [base EXCEPT !.future = sec]

\* The flat writer of the earlier graph store: {forward, reverse}.
persistDependencyGraphFlat(graph) ==
    [fmt |-> "flat",
     flat |-> [forward |-> serializeMap(graph.forward),
               reverse |-> serializeMap(graph.reverse)],
     present |-> EmptySection, future |-> EmptySection]

\* loadCachedDependencyGraph: null unless the top level has `forward`.
loadCachedDependencyGraph(stored) ==
    IF stored.fmt = "flat"
    THEN [ok |-> TRUE,
          graph |-> [forward |-> deserializeMap(stored.flat.forward),
                     reverse |-> deserializeMap(stored.flat.reverse)]]
    ELSE [ok |-> FALSE, graph |-> EmptyGraph]

\* The four artifacts.  symbols: id -> signatureHash (empty = `{}`);
\* hashes: file -> content hash; meta: the stored projectHash ('' initially).
EmptyCache == [symbols |-> EmptyMap, graph |-> EmptyGraphFile,
               hashes |-> EmptyMap, meta |-> ""]

FileHashes(diskNow, project) ==
    [f \in {x \in Files : project[x] # NoFile} |-> computeFileHash(diskNow, f)]

\* The cache a run of the earlier (flat-writing) version left for the
\* sources d0.
LegacyCache(d0) ==
    LET Written(idx) ==
            [symbols |-> idx,
             graph   |-> persistDependencyGraphFlat(buildReferenceGraph(d0, idx)),
             hashes  |-> FileHashes(d0, d0),
             meta    |-> computeProjectHash]
    IN  Written(buildSymbolIndex(d0))

----------------------------------------------------------------------------
(* activate: cache restore with the two-pass partial patch, or full build  *)

\* Pass 1 over project.getSourceFiles(): evict and re-extract stale files.
RECURSIVE RestorePass1(_, _, _, _)
RestorePass1(files, diskNow, cachedHashes, st) ==
    IF files = <<>> THEN st
    ELSE LET fp == Head(files)
             currentHash == computeFileHash(diskNow, fp)
             isStale == \/ currentHash = ""
                        \/ ~MapHas(cachedHashes, fp)
                        \/ cachedHashes[fp] # currentHash
             Reextract(ev) == [index |-> reindexSourceFile(fp, diskNow[fp], ev.index),
                               graph |-> ev.graph,
                               stale |-> Append(st.stale, fp)]
         IN  RestorePass1(Tail(files), diskNow, cachedHashes,
                IF diskNow[fp] # NoFile /\ isStale
                THEN Reextract(removeFileFromGraph(fp, st.index, st.graph))
                ELSE st)

\* Removal of the symbols whose source file is no longer in the project.
RECURSIVE RemoveFiles(_, _)
RemoveFiles(files, st) ==
    IF files = <<>> THEN st
    ELSE RemoveFiles(Tail(files),
                     removeFileFromGraph(Head(files), st.index, st.graph))

\* The cache-hit branch of activate; the project was just loaded from disk.
RestoreFromCache(diskNow, cachedSymbols, cachedGraph, cachedHashes) ==
    LET Done(p1, fin) == [index |-> fin.index, graph |-> fin.graph, stale |-> p1.stale]
        Cleanup(p1, g2, deletedPaths) ==
            Done(p1, RemoveFiles(SelectSeq(FileOrder, LAMBDA f : f \in deletedPaths),
                                 [index |-> p1.index, graph |-> g2]))
        Pass2(p1) ==
            Cleanup(p1, WalkAll(p1.stale, p1.index, diskNow, p1.graph),
                    {FileOf(id) : id \in {x \in DOMAIN p1.index : diskNow[FileOf(x)] = NoFile}})
    IN  Pass2(RestorePass1(FileOrder, diskNow, cachedHashes,
                  [index |-> cachedSymbols, graph |-> cachedGraph, stale |-> <<>>]))

cacheValid(c) ==
    /\ c.symbols # EmptyMap
    /\ loadCachedDependencyGraph(c.graph).ok
    /\ c.meta # ""
    /\ c.meta = computeProjectHash

----------------------------------------------------------------------------
(* Blast-radius traversal                                                  *)

\* The `null` sentinel a per-root parent map stores for its root.
Null == "null"

\* An ImpactRoot.
Root(symbolId, reason, propagationMode) ==
    [symbolId |-> symbolId, reason |-> reason, propagationMode |-> propagationMode]

RootIds(roots) == {roots[i].symbolId : i \in 1..Len(roots)}

RECURSIVE BfsVisit_GlobalOverwrite(_, _, _, _)
BfsVisit_GlobalOverwrite(deps, id, depth, st) ==
    IF deps = <<>> THEN st
    ELSE LET depId == Head(deps)
         IN  IF ~MapHas(st.localDepth, depId)
             THEN BfsVisit_GlobalOverwrite(Tail(deps), id, depth,
                    [queue      |-> Append(st.queue, [id |-> depId, depth |-> depth + 1]),
                     localDepth |-> MapSet(st.localDepth, depId, depth + 1),
                     parent     |-> MapSet(st.parent, depId, id),
                     global     |-> MapSet(st.global, depId, depth + 1)])
             ELSE BfsVisit_GlobalOverwrite(Tail(deps), id, depth, st)

\* BfsVisit without the `!localDepth.has(depId)` test.
RECURSIVE BfsVisit_NoVisitedTest(_, _, _, _)
BfsVisit_NoVisitedTest(deps, id, depth, st) ==
    IF deps = <<>> THEN st
    ELSE LET depId == Head(deps)
         IN  BfsVisit_NoVisitedTest(Tail(deps), id, depth,
                [queue      |-> Append(st.queue, [id |-> depId, depth |-> depth + 1]),
                 localDepth |-> MapSet(st.localDepth, depId, depth + 1),
                 parent     |-> MapSet(st.parent, depId, id),
                 global     |-> IF ~MapHas(st.global, depId) \/ st.global[depId] > depth + 1
                                THEN MapSet(st.global, depId, depth + 1)
                                ELSE st.global])

\* The inner loop of bfsUnlimited over the dependents of `id`.
\* st = [queue, localDepth, parent, global].
RECURSIVE BfsVisit(_, _, _, _)
BfsVisit(deps, id, depth, st) ==
    IF deps = <<>> THEN st
    ELSE LET depId == Head(deps)
         IN  IF ~MapHas(st.localDepth, depId)
             THEN BfsVisit(Tail(deps), id, depth,
                    [queue      |-> Append(st.queue, [id |-> depId, depth |-> depth + 1]),
                     localDepth |-> MapSet(st.localDepth, depId, depth + 1),
                     parent     |-> MapSet(st.parent, depId, id),
                     global     |-> IF ~MapHas(st.global, depId) \/ st.global[depId] > depth + 1
                                    THEN MapSet(st.global, depId, depth + 1)
                                    ELSE st.global])
             ELSE BfsVisit(Tail(deps), id, depth, st)

\* One iteration of the while loop of bfsUnlimited (the queue is not empty).
BfsIteration(graph, st) ==
    LET id    == Head(st.queue).id
        depth == Head(st.queue).depth
        st1   == [st EXCEPT !.queue = Tail(st.queue)]
    IN  IF MapHas(st1.localDepth, id) /\ st1.localDepth[id] < depth
        THEN st1
        ELSE IF ~MapHas(graph.reverse, id)
             THEN st1
             ELSE BfsVisit(IdSeq(graph.reverse[id]), id, depth, st1)

\* The while loop of bfsUnlimited.
RECURSIVE BfsLoop(_, _)
BfsLoop(graph, st) ==
    IF st.queue = <<>> THEN st
    ELSE BfsLoop(graph, BfsIteration(graph, st))

\* bfsUnlimited(rootId, graph, globalDepthMap, perRootParent): returns the
\* updated globalDepthMap and the filled perRootParent.
bfsUnlimited(rootId, graph, globalDepthMap) ==
    LET st == BfsLoop(graph,
                [queue      |-> <<[id |-> rootId, depth |-> 0]>>,
                 localDepth |-> MapSet(EmptyMap, rootId, 0),
                 parent     |-> MapSet(EmptyMap, rootId, Null),
                 global     |-> IF ~MapHas(globalDepthMap, rootId) \/ globalDepthMap[rootId] > 0
                                THEN MapSet(globalDepthMap, rootId, 0)
                                ELSE globalDepthMap])
    IN  [global |-> st.global, parent |-> st.parent]

\* Pass 1 of traverseImpact: one BFS per deep root.
\* acc = [deepDepthMap, perRootParentMaps, order]; order is the insertion
\* order of perRootParentMaps.
RECURSIVE DeepPass(_, _, _)
DeepPass(deepRoots, graph, acc) ==
    IF deepRoots = <<>> THEN acc
    ELSE LET rid == Head(deepRoots).symbolId
             b   == bfsUnlimited(rid, graph, acc.deepDepthMap)
         IN  DeepPass(Tail(deepRoots), graph,
                [deepDepthMap      |-> b.global,
                 perRootParentMaps |-> MapSet(acc.perRootParentMaps, rid, b.parent),
                 order             |-> IF MapHas(acc.perRootParentMaps, rid) THEN acc.order
                                       ELSE Append(acc.order, rid)])

\* The inner loop of pass 2 over the dependents of one shallow root.
RECURSIVE ShallowVisit_NoDeepGuard(_, _, _, _, _)
ShallowVisit_NoDeepGuard(deps, rootId, rootSet, deepDepthMap, shallowParentMap) ==
    IF deps = <<>> THEN shallowParentMap
    ELSE LET depId == Head(deps)
         IN  ShallowVisit_NoDeepGuard(Tail(deps), rootId, rootSet, deepDepthMap,
                IF depId \in rootSet THEN shallowParentMap
                ELSE IF ~MapHas(shallowParentMap, depId)
                     THEN MapSet(shallowParentMap, depId, rootId)
                     ELSE shallowParentMap)

RECURSIVE ShallowVisit(_, _, _, _, _)
ShallowVisit(deps, rootId, rootSet, deepDepthMap, shallowParentMap) ==
    IF deps = <<>> THEN shallowParentMap
    ELSE LET depId == Head(deps)
         IN  ShallowVisit(Tail(deps), rootId, rootSet, deepDepthMap,
                IF depId \in rootSet THEN shallowParentMap
                ELSE IF MapHas(deepDepthMap, depId) THEN shallowParentMap
                ELSE IF ~MapHas(shallowParentMap, depId)
                     THEN MapSet(shallowParentMap, depId, rootId)
                     ELSE shallowParentMap)

\* Pass 2 of traverseImpact: one hop from every shallow root.
RECURSIVE ShallowPass(_, _, _, _, _)
ShallowPass(shallowRoots, graph, rootSet, deepDepthMap, shallowParentMap) ==
    IF shallowRoots = <<>> THEN shallowParentMap
    ELSE LET rid == Head(shallowRoots).symbolId
         IN  ShallowPass(Tail(shallowRoots), graph, rootSet, deepDepthMap,
                IF ~MapHas(graph.reverse, rid) THEN shallowParentMap
                ELSE ShallowVisit(IdSeq(graph.reverse[rid]), rid, rootSet,
                                  deepDepthMap, shallowParentMap))

\* The unified depth map of traverseImpact.
UnifiedDepthMap_KeepRoots(rootSet, deepDepthMap, shallowParentMap) ==
    [id \in (DOMAIN deepDepthMap) \cup (DOMAIN shallowParentMap) |->
        IF id \in DOMAIN shallowParentMap THEN 1 ELSE deepDepthMap[id]]

UnifiedDepthMap(rootSet, deepDepthMap, shallowParentMap) ==
    [id \in ((DOMAIN deepDepthMap) \ rootSet) \cup (DOMAIN shallowParentMap) |->
        IF id \in DOMAIN shallowParentMap THEN 1 ELSE deepDepthMap[id]]

WalkBack_OneStep(parentMap, cur, path) ==
    IF cur = Null THEN path ELSE <<cur>> \o path

\* The backward walk of buildPaths along one per-root parent map.
RECURSIVE WalkBack(_, _, _)
WalkBack(parentMap, cur, path) ==
    IF cur = Null THEN path
    ELSE WalkBack(parentMap,
                  IF MapHas(parentMap, cur) THEN parentMap[cur] ELSE Null,
                  <<cur>> \o path)

\* The paths of one id contributed by the deep roots, in the insertion
\* order of perRootParentMaps.
RECURSIVE DeepPaths_FirstOnly(_, _, _)
DeepPaths_FirstOnly(id, order, perRootParentMaps) ==
    IF order = <<>> THEN <<>>
    ELSE IF ~MapHas(perRootParentMaps[Head(order)], id)
         THEN DeepPaths_FirstOnly(id, Tail(order), perRootParentMaps)
         ELSE <<WalkBack(perRootParentMaps[Head(order)],
                         perRootParentMaps[Head(order)][id], <<id>>)>>

RECURSIVE DeepPaths(_, _, _)
DeepPaths(id, order, perRootParentMaps) ==
    IF order = <<>> THEN <<>>
    ELSE IF ~MapHas(perRootParentMaps[Head(order)], id)
         THEN DeepPaths(id, Tail(order), perRootParentMaps)
         ELSE <<WalkBack(perRootParentMaps[Head(order)],
                         perRootParentMaps[Head(order)][id], <<id>>)>>
              \o DeepPaths(id, Tail(order), perRootParentMaps)

\* buildPaths(depthMap, perRootParentMaps, shallowParentMap)
buildPaths(depthMap, order, perRootParentMaps, shallowParentMap) ==
    LET allPaths(id) ==
            DeepPaths(id, order, perRootParentMaps) \o
            (IF MapHas(shallowParentMap, id) THEN <<<<shallowParentMap[id], id>>>> ELSE <<>>)
    IN  [id \in {x \in DOMAIN depthMap : allPaths(x) # <<>>} |-> allPaths(id)]

\* emptyBlastResult: the result without any impact.
emptyBlastResult == [directImpact |-> {}, indirectImpact |-> {},
                      depthMap |-> EmptyMap, paths |-> EmptyMap]

traverseImpact_ClassifyByRootType(roots, graph) ==
    LET rootSet      == RootIds(roots)
        deepRoots    == SelectSeq(roots, LAMBDA r : r.propagationMode = "deep")
        shallowRoots == SelectSeq(roots, LAMBDA r : r.propagationMode = "shallow")
        p1 == DeepPass(deepRoots, graph,
                [deepDepthMap |-> EmptyMap, perRootParentMaps |-> EmptyMap, order |-> <<>>])
        shallowParentMap == ShallowPass(shallowRoots, graph, rootSet, p1.deepDepthMap, EmptyMap)
        depthMap == UnifiedDepthMap(rootSet, p1.deepDepthMap, shallowParentMap)
    IN  [directImpact   |-> DOMAIN shallowParentMap,
         indirectImpact |-> (DOMAIN depthMap) \ (DOMAIN shallowParentMap),
         depthMap       |-> depthMap,
         paths          |-> buildPaths(depthMap, p1.order, p1.perRootParentMaps, shallowParentMap)]

\* traverseImpact(roots, graph)
traverseImpact(roots, graph) ==
    LET rootSet      == RootIds(roots)
        deepRoots    == SelectSeq(roots, LAMBDA r : r.propagationMode = "deep")
        shallowRoots == SelectSeq(roots, LAMBDA r : r.propagationMode = "shallow")
        p1 == DeepPass(deepRoots, graph,
                [deepDepthMap |-> EmptyMap, perRootParentMaps |-> EmptyMap, order |-> <<>>])
        shallowParentMap == ShallowPass(shallowRoots, graph, rootSet, p1.deepDepthMap, EmptyMap)
        depthMap == UnifiedDepthMap(rootSet, p1.deepDepthMap, shallowParentMap)
    IN  [directImpact   |-> {id \in DOMAIN depthMap : depthMap[id] = 1},
         indirectImpact |-> {id \in DOMAIN depthMap : depthMap[id] # 1},
         depthMap       |-> depthMap,
         paths          |-> buildPaths(depthMap, p1.order, p1.perRootParentMaps, shallowParentMap)]

----------------------------------------------------------------------------
(* Speculative analyses on shadow copies                                   *)

\* What an analysis reports instead of a result when it throws.
NoError == "none"
TypeError == "TypeError"

\* The Map and graph objects an analysis can hold a reference to: the live
\* index "li", the live graph "lg", and the shadow copies "si" and "sg" a
\* call allocates.  A heap maps each reference to the object's content.
LiveHeap(index, graph) ==
    [h \in {"li", "lg", "si", "sg"} |->
        CASE h = "li" -> index
          [] h = "lg" -> graph
          [] h = "si" -> EmptyMap
          [] h = "sg" -> EmptyGraph]

\* new Map(symbolIndex): a fresh Map with the same entries.
cloneIndex(heap, src) ==
    [heap |-> [heap EXCEPT !["si"] = heap[src]], ref |-> "si"]

cloneGraph_Alias(heap, src) ==
    [heap |-> heap, ref |-> src]

\* cloneGraph(graph): fresh Maps holding fresh copies of every Set.
cloneGraph(heap, src) ==
    [heap |-> [heap EXCEPT !["sg"] = heap[src]], ref |-> "sg"]

REASON_PRIORITY(reason) ==
    CASE reason = "deleted"          -> 3
      [] reason = "signature-ripple" -> 2
      [] reason = "renamed"          -> 1
      [] reason = "body-change"      -> 0

\* One iteration of the deduplication loop.  rootMap = [order, at]: the
\* insertion order of the Map's keys and the root stored under each key.
DedupeStep_LastWins(rootMap, candidate) ==
    [order |-> IF MapHas(rootMap.at, candidate.symbolId) THEN rootMap.order
               ELSE Append(rootMap.order, candidate.symbolId),
     at    |-> MapSet(rootMap.at, candidate.symbolId, candidate)]

DedupeStep(rootMap, candidate) ==
    IF ~MapHas(rootMap.at, candidate.symbolId)
    THEN [order |-> Append(rootMap.order, candidate.symbolId),
          at    |-> MapSet(rootMap.at, candidate.symbolId, candidate)]
    ELSE IF REASON_PRIORITY(candidate.reason) >
            REASON_PRIORITY(rootMap.at[candidate.symbolId].reason)
         THEN [rootMap EXCEPT !.at = MapSet(rootMap.at, candidate.symbolId, candidate)]
         ELSE rootMap

RECURSIVE DedupeLoop(_, _)
DedupeLoop(candidates, rootMap) ==
    IF candidates = <<>> THEN rootMap
    ELSE DedupeLoop(Tail(candidates), DedupeStep(rootMap, Head(candidates)))

\* Array.from(rootMap.values()) after the deduplication pass.
Dedupe(candidates) ==
    LET rootMap == DedupeLoop(candidates, [order |-> <<>>, at |-> EmptyMap])
    IN  [i \in 1..Len(rootMap.order) |-> rootMap.at[rootMap.order[i]]]

\* A staged entry of `git diff --cached --name-status` together with the
\* content `git show :path` returns for it.
StagedEntry(status, absolutePath, oldAbsolutePath, content) ==
    [status |-> status, absolutePath |-> absolutePath,
     oldAbsolutePath |-> oldAbsolutePath, content |-> content]

\* handleFileDeleted / handleFileChanged applied to the objects behind the
\* references ih and gh.  st = [heap, project, ripple, perFile].
StagedDelete(fsPath, ih, gh, st) ==
    LET Store(r) == [heap    |-> [st.heap EXCEPT ![ih] = r.index, ![gh] = r.graph],
                     project |-> r.project,
                     ripple  |-> st.ripple,
                     perFile |-> st.perFile]
    IN  Store(handleFileDeleted(fsPath,
                [index |-> st.heap[ih], graph |-> st.heap[gh], project |-> st.project]))

analyzeOneStagedFile(entry, ih, gh, st) ==
    IF entry.content = NoFile THEN st
    ELSE LET Store(r) == [heap    |-> [st.heap EXCEPT ![ih] = r.index, ![gh] = r.graph],
                          project |-> r.project,
                          ripple  |-> st.ripple \o IdSeq(r.report.ripple),
                          perFile |-> MapSet(st.perFile, entry.absolutePath, r.report)]
         IN  Store(handleFileChanged(entry.absolutePath, entry.content,
                     [index |-> st.heap[ih], graph |-> st.heap[gh], project |-> st.project]))

\* perFile.set(absolutePath, result)
SetPerFile(absolutePath, result, st) ==
    [st EXCEPT !.perFile = MapSet(st.perFile, absolutePath, result)]

RECURSIVE StagedLoop(_, _, _, _)
StagedLoop(stagedFiles, ih, gh, st) ==
    IF stagedFiles = <<>> THEN st
    ELSE LET entry == Head(stagedFiles)
         IN  StagedLoop(Tail(stagedFiles), ih, gh,
                IF entry.status = "D"
                THEN SetPerFile(entry.absolutePath, EmptyReport,
                                StagedDelete(entry.absolutePath, ih, gh, st))
                ELSE analyzeOneStagedFile(entry, ih, gh,
                        IF entry.status = "R" /\ entry.oldAbsolutePath # NoFile
                        THEN StagedDelete(entry.oldAbsolutePath, ih, gh, st)
                        ELSE st))

\* analyzeStagedChanges(project, symbolIndex, graph): the index and graph
\* arguments are the references ih and gh.
analyzeStagedChanges(stagedFiles, project, heap, ih, gh) ==
    LET Step3(st, ghostSymbols) ==
            [heap         |-> st.heap,
             project      |-> st.project,
             perFile      |-> st.perFile,
             rippleRoots  |-> Range(st.ripple) \cup ghostSymbols,
             ghostSymbols |-> ghostSymbols]
        Step2(st) == Step3(st, detectGhostSymbols(st.heap[gh], st.heap[ih]))
    IN  Step2(StagedLoop(stagedFiles, ih, gh,
                         [heap |-> heap, project |-> project, ripple |-> <<>>,
                          perFile |-> EmptyMap]))

\* The candidate list of computeStagedBlastRadius, in push order.
StagedCandidates(ghostSet, rippleRootSet, renamedIds, changedSymbolIds) ==
    [i \in 1..Cardinality(ghostSet) |-> Root(IdSeq(ghostSet)[i], "deleted", "deep")] \o
    [i \in 1..Cardinality(rippleRootSet) |->
        Root(IdSeq(rippleRootSet)[i], "signature-ripple", "deep")] \o
    [i \in 1..Cardinality(renamedIds) |-> Root(IdSeq(renamedIds)[i], "renamed", "deep")] \o
    [i \in 1..Cardinality(changedSymbolIds) |->
        Root(IdSeq(changedSymbolIds)[i], "body-change", "shallow")]

\* computeStagedBlastRadius(project, symbolIndex, graph) called with the
\* live objects; `touched` are the ids whose range overlaps a staged hunk.
computeStagedBlastRadius(stagedFiles, touched, project, heap) ==
    LET ci == cloneIndex(heap, "li")
        cg == cloneGraph(ci.heap, "lg")
        renamedNewPaths == {stagedFiles[i].absolutePath :
                               i \in {j \in 1..Len(stagedFiles) : stagedFiles[j].status = "R"}}
        hunkFiles == {stagedFiles[i].absolutePath :
                         i \in {j \in 1..Len(stagedFiles) :
                                  stagedFiles[j].status # "D" /\ stagedFiles[j].content # NoFile}}
        Traverse5(stagedResult, candidates, roots) ==
            [heap    |-> stagedResult.heap,
             project |-> stagedResult.project,
             result  |-> [roots |-> roots, candidates |-> candidates,
                          ghosts |-> stagedResult.ghostSymbols,
                          out |-> traverseImpact(roots, stagedResult.heap["lg"]),
                          stagedIndex |-> stagedResult.heap[ci.ref],
                          stagedGraph |-> stagedResult.heap[cg.ref],
                          phantomIds |-> <<>>,
                          confidenceMap |-> EmptyMap,
                          perFile |-> stagedResult.perFile,
                          error |-> NoError]]
        Dedupe4(stagedResult, candidates) ==
            Traverse5(stagedResult, candidates, Dedupe(candidates))
        Roots3(stagedResult, shadowIndex) ==
            Dedupe4(stagedResult,
                    StagedCandidates(stagedResult.ghostSymbols, stagedResult.rippleRoots,
                        {id \in DOMAIN shadowIndex : FileOf(id) \in renamedNewPaths},
                        {id \in DOMAIN shadowIndex : FileOf(id) \in hunkFiles /\ id \in touched}))
        Analyse2(stagedResult) == Roots3(stagedResult, stagedResult.heap[ci.ref])
    IN  Analyse2(analyzeStagedChanges(stagedFiles, project, cg.heap, ci.ref, cg.ref))

\* classifyRoot(changeType, affectsPublicApi)
classifyRoot(changeType, affectsPublicApi) ==
    IF changeType = "delete" THEN [reason |-> "deleted", propagationMode |-> "deep"]
    ELSE IF affectsPublicApi
         THEN [reason |-> "signature-ripple", propagationMode |-> "deep"]
         ELSE [reason |-> "body-change", propagationMode |-> "shallow"]

\* The id buildVirtualDiff gives the phantom of an unresolved hint.
\* The symbol hints an oracle can return, in its own spelling.
Hints == {"a", "A", "New"}

toLowerCase_Identity(s) == s

\* String.prototype.toLowerCase on the hints and the declared names.
toLowerCase(s) ==
    CASE s = "A"   -> "a"
      [] s = "New" -> "new"
      [] OTHER     -> s

\* `__phantom__#${hint}`
PhantomId(hint) ==
    CASE hint = "a"   -> "__phantom__#a"
      [] hint = "A"   -> "__phantom__#A"
      [] hint = "New" -> "__phantom__#New"

\* The phantom loop of buildVirtualDiff over descriptor.symbolHints.
\* acc = [index, phantomIds].
RECURSIVE AddPhantoms(_, _, _)
AddPhantoms(acc, hints, resolvedNames) ==
    IF hints = <<>> THEN acc
    ELSE AddPhantoms(
             IF toLowerCase(Head(hints)) \in resolvedNames THEN acc
             ELSE IF MapHas(acc.index, PhantomId(Head(hints))) THEN acc
             ELSE [index      |-> MapSet(acc.index, PhantomId(Head(hints)), ""),
                   phantomIds |-> Append(acc.phantomIds, PhantomId(Head(hints)))],
             Tail(hints), resolvedNames)

\* A ResolvedIntent: the descriptor's changeType, affectsPublicApi and
\* symbolHints, and the resolved symbols (id and confidence; the name of a
\* resolved symbol is the name of its index entry).
ResolvedIntent(changeType, affectsPublicApi, symbols, symbolHints) ==
    [changeType |-> changeType, affectsPublicApi |-> affectsPublicApi,
     symbols |-> symbols, symbolHints |-> symbolHints]

\* buildVirtualDiff(resolvedIntent, symbolIndex, graph) called with the live
\* objects.
buildVirtualDiff(resolvedIntent, heap) ==
    LET ci == cloneIndex(heap, "li")
        cg == cloneGraph(ci.heap, "lg")
        symbols == resolvedIntent.symbols
        classification == classifyRoot(resolvedIntent.changeType, resolvedIntent.affectsPublicApi)
        candidates == [i \in 1..Len(symbols) |->
                          Root(symbols[i].symbolId, classification.reason,
                               classification.propagationMode)]
        deletedIds == IF resolvedIntent.changeType = "delete"
                      THEN {symbols[i].symbolId : i \in 1..Len(symbols)} ELSE {}
        index1 == [id \in (DOMAIN cg.heap[ci.ref]) \ deletedIds |-> cg.heap[ci.ref][id]]
        resolvedNames == {toLowerCase(NameOf(symbols[i].symbolId)) : i \in 1..Len(symbols)}
        Finish(added) ==
            [heap        |-> [cg.heap EXCEPT ![ci.ref] = added.index],
             roots       |-> Dedupe(candidates),
             candidates  |-> candidates,
             shadowIndex |-> added.index,
             shadowGraph |-> cg.heap[cg.ref],
             phantomIds  |-> added.phantomIds]
    IN  Finish(IF resolvedIntent.changeType = "add"
               THEN AddPhantoms([index |-> index1, phantomIds |-> <<>>],
                                resolvedIntent.symbolHints, resolvedNames)
               ELSE [index |-> index1, phantomIds |-> <<>>])

CONFIDENCE_RANK(c) ==
    CASE c = "high" -> 2
      [] c = "medium" -> 1
      [] c = "low" -> 0

demote(c) == IF c = "high" THEN "medium" ELSE "low"

maxConfidence_Lower(a, b) == IF CONFIDENCE_RANK(a) >= CONFIDENCE_RANK(b) THEN b ELSE a

maxConfidence(a, b) == IF CONFIDENCE_RANK(a) >= CONFIDENCE_RANK(b) THEN a ELSE b

\* The inner loop of the confidence map over the paths of one symbol.
RECURSIVE BestConfidence(_, _, _, _)
BestConfidence(symbolPaths, depth, rootConfidenceOf, best) ==
    IF symbolPaths = <<>> THEN best
    ELSE LET rootId == Head(symbolPaths)[1]
         IN  BestConfidence(Tail(symbolPaths), depth, rootConfidenceOf,
                IF ~MapHas(rootConfidenceOf, rootId) THEN best
                ELSE maxConfidence(best,
                        IF depth <= 1 THEN rootConfidenceOf[rootId]
                        ELSE demote(rootConfidenceOf[rootId])))

isInDeletedFile_Never(id, deletedAbsFiles) == FALSE

\* isInDeletedFile: the part of the id before its last '#' is the file of
\* one of the resolved symbols.
isInDeletedFile(id, deletedAbsFiles) == FileOf(id) \in deletedAbsFiles

\* computePredictiveBlastRadius(resolvedIntent, symbolIndex, graph).  The
\* steps are chained as local operators: Step4 receives the virtual diff,
\* Step5 the BFS roots and the traversal result, Filter the ids the delete
\* filter keeps.
computePredictiveBlastRadius(resolvedIntent, heap) ==
    LET symbols == resolvedIntent.symbols
        rootConfidenceOf == [id \in {symbols[i].symbolId : i \in 1..Len(symbols)} |->
                               symbols[CHOOSE i \in 1..Len(symbols) :
                                          /\ symbols[i].symbolId = id
                                          /\ \A j \in (i + 1)..Len(symbols) :
                                                symbols[j].symbolId # id].confidence]
        filtering == resolvedIntent.changeType = "delete" /\ Len(symbols) > 0
        deletedAbsFiles == {FileOf(symbols[i].symbolId) : i \in 1..Len(symbols)}
        Filter(vd, bfsRoots, blastResult, kept) ==
            [heap   |-> vd.heap,
             result |-> [roots |-> bfsRoots, candidates |-> vd.candidates, ghosts |-> {},
                         out |-> [directImpact   |-> blastResult.directImpact \cap kept,
                                  indirectImpact |-> blastResult.indirectImpact \cap kept,
                                  depthMap |-> [id \in kept |-> blastResult.depthMap[id]],
                                  paths    |-> [id \in kept \cap DOMAIN blastResult.paths |->
                                                   blastResult.paths[id]]],
                         stagedIndex |-> vd.shadowIndex,
                         stagedGraph |-> vd.shadowGraph,
                         phantomIds  |-> vd.phantomIds,
                         confidenceMap |->
                            [id \in kept |->
                                BestConfidence(IF MapHas(blastResult.paths, id)
                                               THEN blastResult.paths[id] ELSE <<>>,
                                               blastResult.depthMap[id],
                                               rootConfidenceOf, "low")],
                         perFile |-> EmptyMap,
                         error |-> NoError]]
        Step5(vd, bfsRoots, blastResult) ==
            Filter(vd, bfsRoots, blastResult,
                   {id \in DOMAIN blastResult.depthMap :
                       ~(filtering /\ isInDeletedFile(id, deletedAbsFiles))})
        Step4(vd, bfsRoots) ==
            Step5(vd, bfsRoots,
                  IF Len(bfsRoots) > 0 THEN traverseImpact(bfsRoots, vd.heap["lg"])
                  ELSE emptyBlastResult)
        Step3(vd) ==
            Step4(vd, SelectSeq(vd.roots, LAMBDA r : r.symbolId \notin Range(vd.phantomIds)))
    IN  Step3(buildVirtualDiff(resolvedIntent, heap))

----------------------------------------------------------------------------
(* Results of the analyses (defined further down) and their idle values    *)

\* No analysis has been started and nothing was posted.
PanelIdle ==
    /\ analysisVersion = 0
    /\ runs = <<>>
    /\ delivered = <<>>

\* No what-if prompt has been resolved.
NoIntent == ResolvedIntent("none", FALSE, <<>>, <<>>)

\* The locals of the cache-hit branch of activate.  at: the position in the
\* branch; files: the source files Pass 1 has still to visit; changed: the
\* files whose content hash differs from the cached one; staleSourceFiles:
\* the Pass 2 queue; next: the queue position Pass 2 is at.
RestoreState(at, files, changed) ==
    [at |-> at, files |-> files, changed |-> changed, staleI |-> 0,
     evicted |-> {}, extracted |-> {}, failed |-> {}, staleSourceFiles |-> <<>>,
     next |-> 1, walked |-> {}, yields |-> 0]

\* No cache restore is being followed.
NoRestore == RestoreState("idle", <<>>, {})

\* No breadth-first search is being followed.
NoBfs == [at |-> "idle", rootId |-> Null, queue |-> <<>>, localDepth |-> EmptyMap,
          parent |-> EmptyMap, pushed |-> <<>>, target |-> Null, cur |-> Null, path |-> <<>>]

\* No run without staged analyses is being followed.
NoTwin == [n |-> 0, index |-> EmptyMap, graph |-> [forward |-> EmptyMap, reverse |-> EmptyMap],
           project |-> <<>>]

\* No persistDependencyGraph call is being followed.
NoGw == [file |-> EmptyGraphFile, w |-> <<>>]
\* No document has been edited.
NoDeb == [timer |-> NoFile, text |-> NoProject, invoked |-> NoProject, edited |-> {}, n |-> 0]
\* No line range has been converted.
NoLc == [at |-> "idle", sourceText |-> <<>>, startLine |-> 0, endLine |-> 0,
         startPos |-> 0, endPos |-> 0]

AuxIdle ==
    /\ bfs = NoBfs
    /\ twin = NoTwin
    /\ gw = NoGw
    /\ deb = NoDeb
    /\ lc = NoLc

BfsRestIdle == twin = NoTwin /\ gw = NoGw /\ deb = NoDeb /\ lc = NoLc
TwinRestIdle == bfs = NoBfs /\ gw = NoGw /\ deb = NoDeb /\ lc = NoLc
GwRestIdle == bfs = NoBfs /\ twin = NoTwin /\ deb = NoDeb /\ lc = NoLc
DebRestIdle == bfs = NoBfs /\ twin = NoTwin /\ gw = NoGw /\ lc = NoLc
LcRestIdle == bfs = NoBfs /\ twin = NoTwin /\ gw = NoGw /\ deb = NoDeb

\* No type text has been canonicalized.
NoSig == [kind |-> "none", raw1 |-> <<>>, raw2 |-> <<>>, out1 |-> <<>>, out2 |-> <<>>]

NoLast == [op |-> "init", file |-> NoFile, text |-> NoFile]

NoRes == [roots |-> <<>>, candidates |-> <<>>, ghosts |-> {},
          out |-> emptyBlastResult, stagedIndex |-> EmptyMap, stagedGraph |-> EmptyGraph,
          phantomIds |-> <<>>, confidenceMap |-> EmptyMap, perFile |-> EmptyMap,
          error |-> NoError]

----------------------------------------------------------------------------
(* In-editor blast radius                                                  *)

\* A JavaScript value that may be `undefined`.
Undefined == [defined |-> FALSE, value |-> EmptyMap]
Defined(v) == [defined |-> TRUE, value |-> v]

\* The Map objects the in-editor analysis holds a reference to: the live
\* graph.forward "lf", the live graph.reverse "lr", and the tempReverse
\* "tr" the call allocates.
EditorHeap(graph) ==
    [h \in {"lf", "lr", "tr"} |->
        CASE h = "lf" -> graph.forward
          [] h = "lr" -> graph.reverse
          [] h = "tr" -> EmptyMap]

newMap_Alias(heap, src) ==
    [heap |-> heap, ref |-> src]

\* new Map(graph.reverse): a fresh Map with the same entries.
newMap(heap, src) ==
    [heap |-> [heap EXCEPT !["tr"] = heap[src]], ref |-> "tr"]

\* The overlay loop: tempReverse.set(removedId, new Set(deps)) for every
\* snapshot entry with deps.length > 0.
RECURSIVE InjectOverlay(_, _, _, _)
InjectOverlay(heap, ref, entries, preRemovalDependents) ==
    IF entries = <<>> THEN heap
    ELSE InjectOverlay(
             IF preRemovalDependents[Head(entries)] # {}
             THEN [heap EXCEPT ![ref] = MapSet(heap[ref], Head(entries),
                                               preRemovalDependents[Head(entries)])]
             ELSE heap,
             ref, Tail(entries), preRemovalDependents)

InEditorRoots(rippleIds, removedIds, snapshot) ==
    [i \in 1..Len(rippleIds) |->
        [symbolId |-> rippleIds[i], propagationMode |-> "deep",
         reason |-> "signature-ripple"]]
    \o
    [i \in 1..Len(SelectSeq(removedIds, LAMBDA id : MapHas(snapshot, id))) |->
        [symbolId |-> SelectSeq(removedIds, LAMBDA id : MapHas(snapshot, id))[i],
         propagationMode |-> "deep", reason |-> "deleted"]]

\* computeInEditorBlastRadius(rippleIds, removedIds, preRemovalDependents,
\* graph).  pre is the third argument; when it is undefined the first
\* preRemovalDependents.has(id) (called once per removed id) or the for-of
\* over it throws a TypeError.  The result carries the heap after the call.
computeInEditorBlastRadius(rippleIds, removedIds, pre, heap) ==
    LET Thrown == [threw |-> TRUE, heap |-> heap, roots |-> <<>>,
                   result |-> emptyBlastResult]
        Run(roots, tmp) ==
            IF ~pre.defined THEN Thrown
            ELSE LET Bfs(heap1) ==
                         [threw |-> FALSE, heap |-> heap1, roots |-> roots,
                          result |-> traverseImpact(roots,
                                        [forward |-> heap1["lf"],
                                         reverse |-> heap1[tmp.ref]])]
                 IN  Bfs(InjectOverlay(tmp.heap, tmp.ref,
                                       IdSeq(DOMAIN pre.value), pre.value))
        Start(roots) ==
            IF roots = <<>>
            THEN [threw |-> FALSE, heap |-> heap, roots |-> <<>>,
                  result |-> emptyBlastResult]
            ELSE Run(roots, newMap(heap, "lr"))
    IN  IF ~pre.defined /\ removedIds # <<>> THEN Thrown
        ELSE Start(InEditorRoots(rippleIds, removedIds, pre.value))

\* The preRemovalDependents property of the SignatureChangeResult that
\* handleFileChanged returns: the object literal has the four properties
\* ripple, safe, added and removed, so reading this one yields undefined.
ChangeResultSnapshot(report) == Undefined

\* runInEditorAnalysis(changeResult, filePath) up to what it posts: the
\* result, or the error its catch block reports.
runInEditorAnalysis(report, graph) ==
    LET Posted(r) ==
            [graph  |-> [forward |-> r.heap["lf"], reverse |-> r.heap["lr"]],
             result |-> IF r.threw
                        THEN [NoRes EXCEPT !.error = TypeError]
                        ELSE [NoRes EXCEPT !.roots = r.roots, !.out = r.result]]
    IN  Posted(computeInEditorBlastRadius(IdSeq(report.ripple), IdSeq(report.removed),
                                          ChangeResultSnapshot(report),
                                          EditorHeap(graph)))

----------------------------------------------------------------------------
(* Specification 1: lifecycle of the live index and graph                  *)

World == [index |-> symbolIndex,
          graph |-> [forward |-> forward, reverse |-> reverse],
          project |-> proj]

SetWorld(w) ==
    /\ symbolIndex' = w.index
    /\ forward' = w.graph.forward
    /\ reverse' = w.graph.reverse
    /\ proj' = w.project

\* The artifacts a previous session may have left in .blastradius/.
InitialCaches ==
    {EmptyCache} \cup
    {LegacyCache(d0) : d0 \in {d \in DiskStates : d["f1"] # NoFile /\ d["f2"] # NoFile}}

Init ==
    /\ pc = "off"
    /\ disk \in DiskStates
    /\ proj = NoProject
    /\ symbolIndex = EmptyMap
    /\ forward = EmptyMap
    /\ reverse = EmptyMap
    /\ cache \in InitialCaches
    /\ last = NoLast
    /\ res = NoRes
    /\ tRoots = <<>>
    /\ tGraph = EmptyGraph
    /\ tRes = emptyBlastResult
    /\ PanelIdle
    /\ intent = NoIntent
    /\ restore = NoRestore
    /\ sig = NoSig
    /\ AuxIdle

\* activate(): loadProject, then cache restore or full rebuild, then persist.
Activate ==
    /\ pc = "off"
    /\ pc' = "running"
    /\ IF cacheValid(cache)
       THEN \E r \in {RestoreFromCache(disk, cache.symbols,
                        loadCachedDependencyGraph(cache.graph).graph, cache.hashes)} :
                /\ SetWorld([index |-> r.index, graph |-> r.graph, project |-> disk])
                /\ cache' = [symbols |-> r.index,
                             graph   |-> persistDependencyGraph(cache.graph, r.graph, "present"),
                             hashes  |-> FileHashes(disk, disk),
                             meta    |-> cache.meta]
                /\ last' = [op |-> "restore", file |-> NoFile, text |-> NoFile]
       ELSE \E idx \in {buildSymbolIndex(disk)} : \E g \in {buildReferenceGraph(disk, idx)} :
                /\ SetWorld([index |-> idx, graph |-> g, project |-> disk])
                /\ cache' = [symbols |-> idx,
                             graph   |-> persistDependencyGraph(cache.graph, g, "present"),
                             hashes  |-> FileHashes(disk, disk),
                             meta    |-> computeProjectHash]
                /\ last' = [op |-> "build", file |-> NoFile, text |-> NoFile]
    /\ UNCHANGED panelVars
    /\ UNCHANGED intent
    /\ UNCHANGED restore
    /\ UNCHANGED sig
    /\ UNCHANGED auxVars
    /\ UNCHANGED <<disk, res, tRoots, tGraph, tRes>>

\* The window closes: the in-memory structures are gone, the cache stays.
Deactivate ==
    /\ pc = "running"
    /\ pc' = "off"
    /\ SetWorld([index |-> EmptyMap, graph |-> EmptyGraph, project |-> NoProject])
    /\ last' = [op |-> "off", file |-> NoFile, text |-> NoFile]
    /\ UNCHANGED panelVars
    /\ UNCHANGED intent
    /\ UNCHANGED restore
    /\ UNCHANGED sig
    /\ UNCHANGED auxVars
    /\ UNCHANGED <<disk, cache, res, tRoots, tGraph, tRes>>

\* onDidChangeTextDocument (debounced): handleFileChanged with the buffer
\* text of an open document, then onRipple -> runInEditorAnalysis when the
\* report has a ripple or a removed symbol.  (The version counter and the
\* posts of the analysis are followed in the panel specification.)
EditorChange(f, k) ==
    /\ pc = "running"
    /\ disk[f] # NoFile
    /\ \E w \in {handleFileChanged(f, k, World)} :
           IF w.report.ripple # {} \/ w.report.removed # {}
           THEN \E a \in {runInEditorAnalysis(w.report, w.graph)} :
                    /\ SetWorld([index |-> w.index, graph |-> a.graph,
                                 project |-> w.project])
                    /\ res' = a.result
           ELSE /\ SetWorld(w)
                /\ UNCHANGED res
    /\ last' = [op |-> "changed", file |-> f, text |-> k]
    /\ UNCHANGED panelVars
    /\ UNCHANGED intent
    /\ UNCHANGED restore
    /\ UNCHANGED sig
    /\ UNCHANGED auxVars
    /\ UNCHANGED <<pc, disk, cache, tRoots, tGraph, tRes>>

\* FileSystemWatcher create / external change: the file is written on disk
\* and handleFileCreated re-reads it.
FileCreated(f, k) ==
    /\ pc = "running"
    /\ disk' = [disk EXCEPT ![f] = k]
    /\ SetWorld(handleFileCreated(f, disk', World))
    /\ last' = [op |-> "created", file |-> f, text |-> k]
    /\ UNCHANGED panelVars
    /\ UNCHANGED intent
    /\ UNCHANGED restore
    /\ UNCHANGED sig
    /\ UNCHANGED auxVars
    /\ UNCHANGED <<pc, cache, res, tRoots, tGraph, tRes>>

\* FileSystemWatcher delete.
FileDeleted(f) ==
    /\ pc = "running"
    /\ disk[f] # NoFile
    /\ disk' = [disk EXCEPT ![f] = NoFile]
    /\ SetWorld(handleFileDeleted(f, World))
    /\ last' = [op |-> "deleted", file |-> f, text |-> NoFile]
    /\ UNCHANGED panelVars
    /\ UNCHANGED intent
    /\ UNCHANGED restore
    /\ UNCHANGED sig
    /\ UNCHANGED auxVars
    /\ UNCHANGED <<pc, cache, res, tRoots, tGraph, tRes>>

\* The working trees of the repository's branches.
Branches == {[f \in Files |-> IF f = "f1" THEN "K1" ELSE "K4"],
             [f \in Files |-> IF f = "f1" THEN "K2" ELSE NoFile]}

\* A git ref change (checkout, merge, reset) rewrites the working tree and
\* triggers rebuildInPlace, which persists the graph and the file hashes.
GitRefChange(d) ==
    /\ pc = "running"
    /\ disk' = d
    /\ \E w \in {rebuildInPlace(d, World)} :
           /\ SetWorld(w)
           /\ cache' = [cache EXCEPT
                  !.graph  = persistDependencyGraph(cache.graph, w.graph, "present"),
                  !.hashes = FileHashes(d, w.project)]
    /\ last' = [op |-> "rebuild", file |-> NoFile, text |-> NoFile]
    /\ UNCHANGED panelVars
    /\ UNCHANGED intent
    /\ UNCHANGED restore
    /\ UNCHANGED sig
    /\ UNCHANGED auxVars
    /\ UNCHANGED <<pc, res, tRoots, tGraph, tRes>>

Next ==
    \/ Activate
    \/ Deactivate
    \/ \E f \in Files : \E k \in Menu(f) : EditorChange(f, k)
    \/ \E f \in Files : \E k \in Menu(f) : FileCreated(f, k)
    \/ \E f \in Files : FileDeleted(f)
    \/ \E d \in Branches : GitRefChange(d)

Spec == Init /\ [][Next]_vars

----------------------------------------------------------------------------
(* Properties of the live index and graph                                  *)

EdgesOf(map) == {<<x, y>> \in Ids \X Ids : MapHas(map, x) /\ y \in map[x]}

\* The live structures are exactly what a full build of the project gives.
ConsistentLive ==
    /\ symbolIndex = buildSymbolIndex(proj)
    /\ [forward |-> forward, reverse |-> reverse] = buildReferenceGraph(proj, symbolIndex)

\* C1 (mirror invariant): in every state the live graph is left in by
\* addEdge, removeFileFromGraph, handleFileChanged, handleFileCreated,
\* handleFileDeleted, rebuildInPlace or the cache-restore patch,
\* y is in forward[x] exactly when x is in reverse[y].
C1_MirrorInvariant ==
    \A x \in Ids : \A y \in Ids :
        (MapHas(forward, x) /\ y \in forward[x]) <=> (MapHas(reverse, y) /\ x \in reverse[y])

\* A cache restore that patched the graph and left edges in it.
C1_Witness ==
    /\ last.op = "restore"
    /\ disk # [f \in Files |-> NoFile]
    /\ Cardinality(EdgesOf(forward)) >= 2

\* C2 (idempotent re-walk): evicting a file and re-extracting and
\* re-walking it with the content it already had leaves forward and reverse
\* exactly as they were, edges from other files into the file included.
C2_IdempotentRewalk ==
    [][(/\ ConsistentLive
        /\ last'.op = "changed"
        /\ last'.text = proj[last'.file])
       => (forward' = forward /\ reverse' = reverse)]_vars

\* C3 (two-pass correctness): after the cache-restore patch every reference
\* x -> y of the current sources with x and y both indexed is an edge of
\* the graph, also when x is in a non-stale file and y in a stale one.
C3_TwoPassComplete ==
    last.op = "restore" =>
        \A f \in Files : ResolvedEdges(f, symbolIndex, proj) \subseteq EdgesOf(forward)

\* The artifacts the full-rebuild branch of activate leaves in a fresh
\* .blastradius/ for the sources d.
FullBuildCache(d) ==
    LET Written(idx) ==
            [symbols |-> idx,
             graph   |-> persistDependencyGraph(EmptyGraphFile,
                                                buildReferenceGraph(d, idx), "present"),
             hashes  |-> FileHashes(d, d),
             meta    |-> computeProjectHash]
    IN  Written(buildSymbolIndex(d))

\* C14 (cache reuse across restarts): a startup that finds the artifacts a
\* full-rebuild startup persisted (a non-empty index, the unchanged project
\* hash) takes the cache-restore path and does not rebuild.
C14_CacheReuse ==
    [][(/\ pc = "off"
        /\ pc' = "running"
        /\ cache.symbols # EmptyMap
        /\ \E d \in DiskStates : cache = FullBuildCache(d))
          => last'.op = "restore"]_vars

\* C15 (graph persistence round trip): persisting the live graph and loading
\* graph.json again gives a graph with the same forward and reverse maps,
\* and a sectioned graph.json is read as its present section.
C15_GraphRoundTrip ==
    (pc = "running" /\ forward # EmptyMap) =>
        /\ LET g == [forward |-> forward, reverse |-> reverse]
               loaded == loadCachedDependencyGraph(
                             persistDependencyGraph(EmptyGraphFile, g, "present"))
           IN  loaded.ok /\ loaded.graph = g
        /\ cache.graph.fmt = "sectioned" =>
              /\ loadCachedDependencyGraph(cache.graph).ok
              /\ loadCachedDependencyGraph(cache.graph).graph =
                    [forward |-> deserializeMap(cache.graph.present.forward),
                     reverse |-> deserializeMap(cache.graph.present.reverse)]

\* C17: in-editor dependents are found.  When an editor edit of file F
\* changes the signature of, or removes, a symbol B of F, and a symbol A of
\* another file referenced B before the edit (A is in reverse[B]), the
\* in-editor analysis run after handleFileChanged posts a result that has B
\* as a deep root and A in directImpact.
C17_InEditorDependentsFound ==
    [][\A a, b \in Ids :
          (/\ last'.op = "changed"
           /\ FileOf(b) = last'.file
           /\ FileOf(a) # last'.file
           /\ MapHas(symbolIndex, b)
           /\ (~MapHas(symbolIndex', b) \/ symbolIndex'[b] # symbolIndex[b])
           /\ a \in MapGet(reverse, b))
          => /\ res'.error = NoError
             /\ \E i \in 1..Len(res'.roots) :
                    /\ res'.roots[i].symbolId = b
                    /\ res'.roots[i].propagationMode = "deep"
             /\ a \in res'.out.directImpact]_vars

----------------------------------------------------------------------------
(* Specification 2: traverseImpact applied to bounded inputs               *)

MaxEdges == 3
MaxRoots == 2

\* The graph whose edges are exactly the pairs of E (built by addEdge).
GraphOf(E) == AddEdges(EmptyGraph, E)

TraverseGraphs ==
    {GraphOf(E) : E \in {X \in SUBSET {e \in Ids \X Ids : e[1] # e[2]} :
                            Cardinality(X) <= MaxEdges}}

\* Root lists as the callers produce them: one root per symbol id.
TraverseRootLists ==
    UNION {{rs \in [1..n -> {Root(id, "signature-ripple", "deep") : id \in Ids} \cup
                            {Root(id, "body-change", "shallow") : id \in Ids}] :
               \A i \in 1..n : \A j \in 1..n : i # j => rs[i].symbolId # rs[j].symbolId}
           : n \in 0..MaxRoots}

InitTraverse ==
    /\ pc = "input"
    /\ tGraph \in TraverseGraphs
    /\ tRoots \in TraverseRootLists
    /\ tRes = emptyBlastResult
    /\ PanelIdle
    /\ intent = NoIntent
    /\ restore = NoRestore
    /\ sig = NoSig
    /\ AuxIdle
    /\ disk = NoProject
    /\ proj = NoProject
    /\ symbolIndex = EmptyMap
    /\ forward = EmptyMap
    /\ reverse = EmptyMap
    /\ cache = EmptyCache
    /\ last = NoLast
    /\ res = NoRes

Traverse ==
    /\ pc = "input"
    /\ pc' = "done"
    /\ tRes' = traverseImpact(tRoots, tGraph)
    /\ UNCHANGED panelVars
    /\ UNCHANGED intent
    /\ UNCHANGED restore
    /\ UNCHANGED sig
    /\ UNCHANGED auxVars
    /\ UNCHANGED <<disk, proj, symbolIndex, forward, reverse, cache, last, res,
                   tRoots, tGraph>>

NextTraverse == Traverse

SpecTraverse == InitTraverse /\ [][NextTraverse]_vars

\* Ids reachable from r over reverse edges in at most n hops.
RECURSIVE ReachWithin(_, _, _)
ReachWithin(rev, r, n) ==
    IF n = 0 THEN {r}
    ELSE LET prev == ReachWithin(rev, r, n - 1)
         IN  prev \cup UNION {MapGet(rev, y) : y \in prev}

Reaches(rev, r, x) == x \in ReachWithin(rev, r, Cardinality(Ids))

\* Length of the shortest chain of reverse edges from r to x.
Distance(rev, r, x) ==
    CHOOSE n \in 0..Cardinality(Ids) :
        /\ x \in ReachWithin(rev, r, n)
        /\ \A m \in 0..(n - 1) : x \notin ReachWithin(rev, r, m)

DeepRootIds == {tRoots[i].symbolId : i \in {j \in 1..Len(tRoots) : tRoots[j].propagationMode = "deep"}}
ShallowRootIds == {tRoots[i].symbolId : i \in {j \in 1..Len(tRoots) : tRoots[j].propagationMode = "shallow"}}

DeepReachable(x) == \E r \in DeepRootIds : Reaches(tGraph.reverse, r, x)

DeepDistance(x) ==
    CHOOSE n \in 0..Cardinality(Ids) :
        /\ \E r \in DeepRootIds : Reaches(tGraph.reverse, r, x) /\ Distance(tGraph.reverse, r, x) = n
        /\ \A r \in DeepRootIds : Reaches(tGraph.reverse, r, x) => Distance(tGraph.reverse, r, x) >= n

PathsOf(x) == IF MapHas(tRes.paths, x) THEN tRes.paths[x] ELSE <<>>

PathsFromTo(r, x) ==
    {i \in 1..Len(PathsOf(x)) :
        /\ PathsOf(x)[i][1] = r
        /\ PathsOf(x)[i][Len(PathsOf(x)[i])] = x}

\* C6 (path completeness): for every impacted id x and every deep root r
\* that reaches x over reverse edges, paths[x] holds exactly one path that
\* starts at r and ends at x.
C6_PathCompleteness ==
    pc = "done" =>
        \A x \in DOMAIN tRes.depthMap : \A r \in DeepRootIds :
            Reaches(tGraph.reverse, r, x) => Cardinality(PathsFromTo(r, x)) = 1

\* An impacted id reached by two deep roots, with a path from each.
C6_Witness ==
    /\ pc = "done"
    /\ \E x \in DOMAIN tRes.depthMap : \E r1 \in DeepRootIds : \E r2 \in DeepRootIds :
          /\ r1 # r2
          /\ Reaches(tGraph.reverse, r1, x)
          /\ Reaches(tGraph.reverse, r2, x)
          /\ Len(PathsOf(x)) = 2

\* C7 (all reachabilities retained): every root that reaches an impacted
\* node under its propagation mode (a deep root over any chain of reverse
\* edges, a shallow root over one reverse edge) contributes a path from that
\* root to the node; so with A -> B (deep), A -> C (shallow) paths[A] holds
\* both [B, A] and [C, A].
C7_AllReachabilitiesRetained ==
    pc = "done" =>
        \A x \in DOMAIN tRes.depthMap :
            /\ \A r \in DeepRootIds :
                  Reaches(tGraph.reverse, r, x) => PathsFromTo(r, x) # {}
            /\ \A r \in ShallowRootIds :
                  x \in MapGet(tGraph.reverse, r) =>
                      \E i \in 1..Len(PathsOf(x)) : PathsOf(x)[i] = <<r, x>>

C10_RootsNotImpacted ==
    pc = "done" =>
        \A r \in RootIds(tRoots) :
            /\ ~MapHas(tRes.depthMap, r)
            /\ r \notin tRes.directImpact
            /\ r \notin tRes.indirectImpact

\* A root that depends on another, deep, root.
C10_Witness ==
    /\ pc = "done"
    /\ \E r1 \in DeepRootIds : \E r2 \in RootIds(tRoots) :
          /\ r1 # r2
          /\ r2 \in MapGet(tGraph.reverse, r1)
          /\ tRes.depthMap # EmptyMap

\* One-hop dependents of the shallow roots.
ShallowOneHop == UNION {MapGet(tGraph.reverse, s) : s \in ShallowRootIds}

C13_PathValidity ==
    pc = "done" =>
        \A x \in DOMAIN tRes.paths : \A i \in 1..Len(tRes.paths[x]) :
            LET p == tRes.paths[x][i]
            IN  /\ Len(p) >= 2
                /\ p[1] \in RootIds(tRoots)
                /\ p[Len(p)] = x
                /\ \A k \in 1..(Len(p) - 1) : p[k + 1] \in MapGet(tGraph.reverse, p[k])
                /\ p[1] \in DeepRootIds =>
                      /\ Reaches(tGraph.reverse, p[1], x)
                      /\ Len(p) - 1 = Distance(tGraph.reverse, p[1], x)

\* An id with a two-edge path from one deep root although another deep
\* root is one edge away.
C13_Witness ==
    /\ pc = "done"
    /\ \E x \in DOMAIN tRes.paths :
          /\ Len(tRes.paths[x]) = 2
          /\ \E i \in 1..2 : Len(tRes.paths[x][i]) = 3
          /\ \E i \in 1..2 : Len(tRes.paths[x][i]) = 2
          /\ tRes.depthMap[x] = 1

----------------------------------------------------------------------------
(* Specification 3: speculative analyses against a freshly built workspace *)

MaxStaged == 2
MaxSymbols == 2

\* The entries git can report for one path.
StagedEntries ==
    {StagedEntry("M", f, NoFile, k) : f \in Files, k \in {"K1", "K2", "K3", "K4", "K5"}}
    \cup {StagedEntry("D", f, NoFile, NoFile) : f \in Files}
    \cup {StagedEntry("R", f, g, k) : f \in Files, g \in Files,
                                      k \in {"K1", "K2", "K3", "K4", "K5"}}

\* Staged file lists: every path is named by at most one entry, a modified
\* or renamed path carries a text of its menu.
StagedLists ==
    UNION {{l \in [1..n -> {e \in StagedEntries :
                              /\ e.status # "D" => e.content \in Menu(e.absolutePath)
                              /\ e.status = "R" => e.oldAbsolutePath # e.absolutePath}] :
               \A i \in 1..n : \A j \in 1..n :
                   i # j => {l[i].absolutePath, l[i].oldAbsolutePath} \cap
                            {l[j].absolutePath, l[j].oldAbsolutePath} \subseteq {NoFile}}
           : n \in 1..MaxStaged}

Confidences == {"high", "low"}

MaxHints == 2

\* descriptor.symbolHints
HintLists == UNION {[1..n -> Hints] : n \in 0..MaxHints}

\* The hints of the what-if prompts of this specification: none, or one
\* that names no declared symbol.
AnalysisHintLists == {<<>>, <<"New">>}

\* Resolver output: distinct symbols of the live index, each with a
\* confidence.
ResolvedSymbolLists(index) ==
    UNION {{l \in [1..n -> [symbolId : DOMAIN index, confidence : Confidences]] :
               \A i \in 1..n : \A j \in 1..n : i # j => l[i].symbolId # l[j].symbolId}
           : n \in 0..MaxSymbols}

InitAnalysis ==
    /\ pc = "running"
    /\ disk \in DiskStates
    /\ proj = disk
    /\ symbolIndex = buildSymbolIndex(disk)
    /\ forward \in {buildReferenceGraph(disk, symbolIndex).forward}
    /\ reverse \in {buildReferenceGraph(disk, symbolIndex).reverse}
    /\ cache = [symbols |-> symbolIndex,
                graph   |-> persistDependencyGraph(EmptyGraphFile,
                                [forward |-> forward, reverse |-> reverse], "present"),
                hashes  |-> FileHashes(disk, disk),
                meta    |-> computeProjectHash]
    /\ last = NoLast
    /\ res = NoRes
    /\ tRoots = <<>>
    /\ tGraph = EmptyGraph
    /\ tRes = emptyBlastResult
    /\ PanelIdle
    /\ intent = NoIntent
    /\ restore = NoRestore
    /\ sig = NoSig
    /\ AuxIdle

\* An analysis is requested (staging change, Analyze command, what-if
\* prompt): the panel drops the result it shows and waits for the new one.
AnalysisStart ==
    /\ pc = "running"
    /\ last.op # "start"
    /\ last' = [op |-> "start", file |-> NoFile, text |-> NoFile]
    /\ res' = NoRes
    /\ intent' = NoIntent
    /\ UNCHANGED restore
    /\ UNCHANGED sig
    /\ UNCHANGED auxVars
    /\ UNCHANGED panelVars
    /\ UNCHANGED <<pc, disk, proj, symbolIndex, forward, reverse, cache,
                   tRoots, tGraph, tRes>>

\* Ids a staged hunk overlaps: the declarations with one of the names.
Touched(touchedNames) == {id \in Ids : NameOf(id) \in touchedNames}

\* runAnalysis: computeStagedBlastRadius on the live project, index and
\* graph.
StagedAnalysis(stagedFiles, touched) ==
    /\ pc = "running"
    /\ last.op = "start"
    /\ \E r \in {computeStagedBlastRadius(stagedFiles, touched, proj,
                                          LiveHeap(symbolIndex, [forward |-> forward,
                                                                 reverse |-> reverse]))} :
           /\ SetWorld([index |-> r.heap["li"], graph |-> r.heap["lg"], project |-> r.project])
           /\ res' = r.result
    /\ last' = [op |-> "staged", file |-> NoFile, text |-> NoFile, staged |-> stagedFiles]
    /\ UNCHANGED panelVars
    /\ UNCHANGED intent
    /\ UNCHANGED restore
    /\ UNCHANGED sig
    /\ UNCHANGED auxVars
    /\ UNCHANGED <<pc, disk, cache, tRoots, tGraph, tRes>>

\* The what-if pipeline: computePredictiveBlastRadius on the live index and
\* graph for a resolved intent.
PredictiveAnalysis(resolvedIntent) ==
    /\ pc = "running"
    /\ last.op = "start"
    /\ \E r \in {computePredictiveBlastRadius(resolvedIntent,
                                              LiveHeap(symbolIndex, [forward |-> forward,
                                                                     reverse |-> reverse]))} :
           /\ SetWorld([index |-> r.heap["li"], graph |-> r.heap["lg"], project |-> proj])
           /\ res' = r.result
    /\ last' = [op |-> "predictive", file |-> NoFile, text |-> resolvedIntent.changeType]
    /\ intent' = resolvedIntent
    /\ UNCHANGED restore
    /\ UNCHANGED sig
    /\ UNCHANGED auxVars
    /\ UNCHANGED panelVars
    /\ UNCHANGED <<pc, disk, cache, tRoots, tGraph, tRes>>

NextAnalysis ==
    \/ AnalysisStart
    \/ \E l \in StagedLists : \E touchedNames \in SUBSET Names :
          StagedAnalysis(l, Touched(touchedNames))
    \/ \E changeType \in {"delete", "modify", "add"} : \E affectsPublicApi \in BOOLEAN :
       \E symbols \in ResolvedSymbolLists(symbolIndex) : \E symbolHints \in AnalysisHintLists :
          PredictiveAnalysis(ResolvedIntent(changeType, affectsPublicApi, symbols, symbolHints))

SpecAnalysis == InitAnalysis /\ [][NextAnalysis]_vars

----------------------------------------------------------------------------
(* Properties of the speculative analyses                                  *)

C5_StagedDeletionGhost ==
    last.op = "staged" =>
        \A Z \in (DOMAIN symbolIndex) \ (DOMAIN res.stagedIndex) :
            (MapGet(reverse, Z) \cap DOMAIN res.stagedIndex) # {} =>
                /\ Z \in res.ghosts
                /\ \E i \in 1..Len(res.roots) : res.roots[i] = Root(Z, "deleted", "deep")
                /\ \A Y \in (MapGet(reverse, Z) \cap DOMAIN res.stagedIndex) \ RootIds(res.roots) :
                      /\ Y \in res.out.directImpact
                      /\ \A X \in (MapGet(reverse, Y) \cap DOMAIN res.stagedIndex)
                                      \ RootIds(res.roots) :
                            (\A r \in RootIds(res.roots) : X \notin MapGet(reverse, r))
                                => X \in res.out.indirectImpact

PropagationModeOf(reason) == IF reason = "body-change" THEN "shallow" ELSE "deep"

\* C9 (reason priority): the roots of computeStagedBlastRadius and of
\* buildVirtualDiff hold at most one root per symbol id, and the root of an
\* id has the highest-priority reason among the id's candidates (deleted >
\* signature-ripple > renamed > body-change) with that reason's mode.
C9_ReasonPriority ==
    last.op \in {"staged", "predictive"} =>
        /\ \A i \in 1..Len(res.roots) : \A j \in 1..Len(res.roots) :
              i # j => res.roots[i].symbolId # res.roots[j].symbolId
        /\ \A k \in 1..Len(res.candidates) :
              \E i \in 1..Len(res.roots) :
                 /\ res.roots[i].symbolId = res.candidates[k].symbolId
                 /\ REASON_PRIORITY(res.roots[i].reason) >=
                        REASON_PRIORITY(res.candidates[k].reason)
                 /\ res.roots[i].propagationMode = PropagationModeOf(res.roots[i].reason)
        /\ \A i \in 1..Len(res.roots) :
              \E k \in 1..Len(res.candidates) : res.candidates[k] = res.roots[i]

\* A staged analysis in which one id was a candidate under two reasons.
C9_Witness ==
    /\ last.op = "staged"
    /\ \E k \in 1..Len(res.candidates) : \E m \in 1..Len(res.candidates) :
          /\ res.candidates[k].symbolId = res.candidates[m].symbolId
          /\ res.candidates[k].reason = "signature-ripple"
          /\ res.candidates[m].reason = "body-change"

\* paths.get(x) ?? [] of the analysis result
ResPaths(x) == IF MapHas(res.out.paths, x) THEN res.out.paths[x] ELSE <<>>

\* The confidence the resolver gave a symbol of the intent (the last entry
\* for the id, as the Map built from resolvedIntent.symbols keeps it).
ResolvedWith(id, c) ==
    \E i \in 1..Len(intent.symbols) :
        /\ intent.symbols[i].symbolId = id
        /\ intent.symbols[i].confidence = c
        /\ \A j \in (i + 1)..Len(intent.symbols) : intent.symbols[j].symbolId # id

\* C20: confidence monotonicity.  In every predictive result, for any
\* impacted id x and any path of paths[x] that starts at a root r resolved
\* with confidence c, confidenceMap[x] is at least demote(c) in the order
\* low < medium < high.
C20_ConfidenceMonotone ==
    last.op = "predictive" =>
        \A x \in DOMAIN res.confidenceMap :
            \A i \in 1..Len(ResPaths(x)) :
                \A c \in {"low", "medium", "high"} :
                    ResolvedWith(ResPaths(x)[i][1], c) =>
                        CONFIDENCE_RANK(res.confidenceMap[x]) >= CONFIDENCE_RANK(demote(c))

\* A predictive result with an id at depth 2 or more whose path starts at
\* a root resolved with high confidence: its recorded confidence is the
\* demoted one.
C20_Witness ==
    /\ last.op = "predictive"
    /\ \E x \in DOMAIN res.confidenceMap :
          /\ res.out.depthMap[x] >= 2
          /\ res.confidenceMap[x] = "medium"
          /\ \E i \in 1..Len(ResPaths(x)) :
                ResolvedWith(ResPaths(x)[i][1], "high")

\* The confidence the resolver gave root id r (defined when r is resolved).
ConfidenceOfRoot(r) == CHOOSE c \in {"low", "medium", "high"} : ResolvedWith(r, c)

\* What one explanation path contributes when the penalty follows the
\* distance of the symbol from that path's own root (its number of hops).
PathContribution(p) ==
    IF Len(p) - 1 <= 1 THEN ConfidenceOfRoot(p[1]) ELSE demote(ConfidenceOfRoot(p[1]))

\* The highest rank among the contributions of the paths of x that start
\* at a resolved root (0, the rank of low, when there is none).
BestContributionRank(x) ==
    LET ranks == {CONFIDENCE_RANK(PathContribution(ResPaths(x)[i])) :
                     i \in {j \in 1..Len(ResPaths(x)) :
                               \E c \in {"low", "medium", "high"} :
                                   ResolvedWith(ResPaths(x)[j][1], c)}}
    IN  IF ranks = {} THEN 0 ELSE CHOOSE m \in ranks : \A n \in ranks : n <= m

\* C21: confidence degrades with distance from the root.  In a predictive
\* result the confidence of every impacted symbol is the maximum, over its
\* explanation paths, of the path's root confidence, unchanged when the
\* symbol is at distance <= 1 from that path's root and demoted one tier
\* when it is at distance >= 2 from that path's root.
C21_ConfidenceByPathDistance ==
    last.op = "predictive" =>
        \A x \in DOMAIN res.confidenceMap :
            CONFIDENCE_RANK(res.confidenceMap[x]) = BestContributionRank(x)

\* The files of the symbols the intent resolved to.
ResolvedFiles == {FileOf(intent.symbols[i].symbolId) : i \in 1..Len(intent.symbols)}

\* C23: delete post-filter.  For a delete intent no id of directImpact,
\* indirectImpact, depthMap, paths or confidenceMap belongs to a file that
\* holds one of the resolved roots, and the five collections describe the
\* same set of remaining ids.
C23_DeletePostFilter ==
    (last.op = "predictive" /\ intent.changeType = "delete") =>
        /\ \A id \in res.out.directImpact \cup res.out.indirectImpact
                     \cup DOMAIN res.out.depthMap \cup DOMAIN res.out.paths
                     \cup DOMAIN res.confidenceMap : FileOf(id) \notin ResolvedFiles
        /\ DOMAIN res.out.depthMap = res.out.directImpact \cup res.out.indirectImpact
        /\ DOMAIN res.out.paths = DOMAIN res.out.depthMap
        /\ DOMAIN res.confidenceMap = DOMAIN res.out.depthMap

\* A delete prediction that kept a dependent of another file while a
\* dependent inside the deleted symbol's own file, which is not itself a
\* root, was stripped.
C23_Witness ==
    /\ last.op = "predictive"
    /\ intent.changeType = "delete"
    /\ res.out.directImpact # {}
    /\ \E i \in 1..Len(res.roots) :
          \E id \in MapGet(reverse, res.roots[i].symbolId) :
              /\ FileOf(id) \in ResolvedFiles
              /\ id \notin RootIds(res.roots)
              /\ id \notin DOMAIN res.out.depthMap

\* Ids of the declarations of file f in an index.
IdsOfFile(index, f) == {id \in DOMAIN index : FileOf(id) = f}

\* Ids an edge of the graph starts from or ends at.
GraphIds(graph) ==
    (DOMAIN graph.forward) \cup (DOMAIN graph.reverse)
    \cup UNION {graph.forward[k] : k \in DOMAIN graph.forward}
    \cup UNION {graph.reverse[k] : k \in DOMAIN graph.reverse}

\* C25 (staged file deletion is reported): for a staged file with status D,
\* the staged analysis evicts the file from the shadow index and graph, and
\* the per-file change report's removed set contains every symbol the file
\* had before the eviction.
C25_StagedDeletionReported ==
    [][last'.op = "staged" =>
          \A i \in 1..Len(last'.staged) :
              last'.staged[i].status = "D" =>
                  LET f == last'.staged[i].absolutePath
                  IN  /\ IdsOfFile(res'.stagedIndex, f) = {}
                      /\ {id \in GraphIds(res'.stagedGraph) : FileOf(id) = f} = {}
                      /\ MapHas(res'.perFile, f)
                      /\ IdsOfFile(symbolIndex, f) \subseteq res'.perFile[f].removed]_vars

\* The staged entries that went through handleFileChanged.
ChangedEntries(stagedFiles) ==
    {i \in 1..Len(stagedFiles) : stagedFiles[i].status # "D" /\ stagedFiles[i].content # NoFile}

\* C27 (signature report partition): in the report of handleFileChanged,
\* added, ripple and safe are pairwise disjoint and together are the file's
\* symbols in the post-parse index (added = not in the snapshot, ripple = in
\* the snapshot with a different hash, safe = in the snapshot with the same
\* hash), removed is the snapshot ids absent from the post-parse index, and
\* ripple, safe and removed together are the snapshot's key set.
C27_ReportPartition ==
    [][last'.op = "staged" =>
          \A i \in ChangedEntries(last'.staged) :
              LET f    == last'.staged[i].absolutePath
                  rep  == res'.perFile[f]
                  snap == IdsOfFile(symbolIndex, f)
                  post == IdsOfFile(res'.stagedIndex, f)
              IN  /\ rep.added \cap rep.ripple = {}
                  /\ rep.added \cap rep.safe = {}
                  /\ rep.ripple \cap rep.safe = {}
                  /\ rep.added \cup rep.ripple \cup rep.safe = post
                  /\ rep.added = post \ snap
                  /\ rep.ripple = {id \in post \cap snap :
                                      symbolIndex[id] # res'.stagedIndex[id]}
                  /\ rep.safe = {id \in post \cap snap :
                                    symbolIndex[id] = res'.stagedIndex[id]}
                  /\ rep.removed = snap \ DOMAIN res'.stagedIndex
                  /\ rep.ripple \cup rep.safe \cup rep.removed = snap]_vars

\* A staged modification whose report has a rippling and a safe symbol, and
\* one whose report has an added and a removed symbol.
C27_Witness ==
    /\ last.op = "staged"
    /\ \E i \in ChangedEntries(last.staged) :
          LET rep == res.perFile[last.staged[i].absolutePath]
          IN  \/ rep.ripple # {} /\ rep.safe # {}
              \/ rep.added # {} /\ rep.removed # {}

----------------------------------------------------------------------------
(* Specification 4: the analysis version counter and the panel             *)

MaxAnalyses == 3

\* `myVersion !== analysisVersion`: a newer analysis has started.
IsStale_Never(myVersion, version) == FALSE

\* The comparison of the staleness test inverted.
IsStale_Inverted(myVersion, version) == myVersion = version

IsStale(myVersion, version) == myVersion # version

\* provider.postResult / provider.postError by the analysis myVersion while
\* the counter stands at `version`.
Post(myVersion, kind, what, version) ==
    [by |-> myVersion, kind |-> kind, what |-> what, latest |-> version]

InitPanel ==
    /\ pc = "running"
    /\ disk = NoProject
    /\ proj = NoProject
    /\ symbolIndex = EmptyMap
    /\ forward = EmptyMap
    /\ reverse = EmptyMap
    /\ cache = EmptyCache
    /\ last = NoLast
    /\ res = NoRes
    /\ tRoots = <<>>
    /\ tGraph = EmptyGraph
    /\ tRes = emptyBlastResult
    /\ PanelIdle
    /\ intent = NoIntent
    /\ restore = NoRestore
    /\ sig = NoSig
    /\ AuxIdle

\* runAnalysis up to its first await: myVersion = ++analysisVersion,
\* postAnalysisStart, the call of computeStagedBlastRadius.
StartStaged ==
    /\ analysisVersion < MaxAnalyses
    /\ analysisVersion' = analysisVersion + 1
    /\ runs' = Append(runs, [kind |-> "staged", at |-> "computing"])
    /\ UNCHANGED <<delivered, liveVars, travVars>>
    /\ UNCHANGED auxVars

\* runAnalysis resumes after `await computeStagedBlastRadius`, which
\* resolved (ok) or rejected.
StagedComputed(myVersion, ok) ==
    /\ runs[myVersion].at = "computing"
    /\ IF IsStale(myVersion, analysisVersion)
       THEN /\ runs' = [runs EXCEPT ![myVersion].at = "discarded"]
            /\ UNCHANGED delivered
       ELSE IF ok
            THEN /\ runs' = [runs EXCEPT ![myVersion].at = "listing"]
                 /\ UNCHANGED delivered
            ELSE /\ runs' = [runs EXCEPT ![myVersion].at = "posted"]
                 /\ delivered' = Append(delivered,
                                    Post(myVersion, "staged", "error", analysisVersion))
    /\ UNCHANGED <<analysisVersion, liveVars, travVars>>
    /\ UNCHANGED auxVars

\* runAnalysis resumes after `await getStagedFiles` and, when still current,
\* posts the result (or the error of a rejected getStagedFiles).
StagedListed(myVersion, ok) ==
    /\ runs[myVersion].at = "listing"
    /\ IF IsStale(myVersion, analysisVersion)
       THEN /\ runs' = [runs EXCEPT ![myVersion].at = "discarded"]
            /\ UNCHANGED delivered
       ELSE /\ runs' = [runs EXCEPT ![myVersion].at = "posted"]
            /\ delivered' = Append(delivered,
                               Post(myVersion, "staged", IF ok THEN "result" ELSE "error",
                                    analysisVersion))
    /\ UNCHANGED <<analysisVersion, liveVars, travVars>>
    /\ UNCHANGED auxVars

\* runInEditorAnalysis: synchronous from ++analysisVersion to postResult or
\* postError.
InEditor(ok) ==
    /\ analysisVersion < MaxAnalyses
    /\ analysisVersion' = analysisVersion + 1
    /\ IF IsStale(analysisVersion', analysisVersion')
       THEN /\ runs' = Append(runs, [kind |-> "in-editor", at |-> "discarded"])
            /\ UNCHANGED delivered
       ELSE /\ runs' = Append(runs, [kind |-> "in-editor", at |-> "posted"])
            /\ delivered' = Append(delivered,
                               Post(analysisVersion', "in-editor",
                                    IF ok THEN "result" ELSE "error", analysisVersion'))
    /\ UNCHANGED <<liveVars, travVars>>
    /\ UNCHANGED auxVars

NextPanel ==
    \/ StartStaged
    \/ \E myVersion \in 1..Len(runs) : \E ok \in BOOLEAN : StagedComputed(myVersion, ok)
    \/ \E myVersion \in 1..Len(runs) : \E ok \in BOOLEAN : StagedListed(myVersion, ok)
    \/ \E ok \in BOOLEAN : InEditor(ok)

SpecPanel == InitPanel /\ [][NextPanel]_vars

\* C16 (stale results are discarded): whatever the interleaving of staged
\* and in-editor analyses, every result or error reaches the panel from the
\* analysis that was the most recently started one at that moment, at most
\* once per analysis, and an analysis that found a newer one started has
\* posted nothing.
C16_StaleDiscarded ==
    /\ \A i \in 1..Len(delivered) : delivered[i].by = delivered[i].latest
    /\ \A i \in 1..Len(delivered) : \A j \in 1..Len(delivered) :
          delivered[i].by = delivered[j].by => i = j
    /\ \A v \in 1..Len(runs) :
          runs[v].at = "discarded" => \A i \in 1..Len(delivered) : delivered[i].by # v

\* A staged analysis that passed its first check, was overtaken during
\* getStagedFiles by an in-editor analysis that posted, and then returned
\* without posting.
C16_Witness ==
    /\ Len(runs) >= 2
    /\ runs[1] = [kind |-> "staged", at |-> "discarded"]
    /\ runs[2] = [kind |-> "in-editor", at |-> "posted"]
    /\ Len(delivered) >= 1
    /\ delivered[1].by = 2

----------------------------------------------------------------------------
(* Specification 5: one call of computeInEditorBlastRadius on a live graph *)

MaxLiveEdges == 2
MaxChanged == 2
MaxSnapshot == 2
MaxDeps == 1

LiveGraphs ==
    {GraphOf(E) : E \in {X \in SUBSET {e \in Ids \X Ids : e[1] # e[2]} :
                            Cardinality(X) <= MaxLiveEdges}}

\* <<rippleIds, removedIds>>: the ids of a change report.
ChangedIds ==
    {<<IdSeq(R), IdSeq(D)>> : <<R, D>> \in
        {p \in (SUBSET Ids) \X (SUBSET Ids) :
            /\ p[1] \cap p[2] = {}
            /\ Cardinality(p[1] \cup p[2]) <= MaxChanged}}

\* Snapshots removedId -> dependents, and the undefined the caller passes.
Snapshots ==
    {Undefined} \cup
    {Defined(m) : m \in UNION {[K -> {S \in SUBSET Ids : Cardinality(S) <= MaxDeps}] :
                                 K \in {K \in SUBSET Ids : Cardinality(K) <= MaxSnapshot}}}

InitInEditor ==
    /\ pc = "input"
    /\ tGraph \in LiveGraphs
    /\ forward = tGraph.forward
    /\ reverse = tGraph.reverse
    /\ disk = NoProject
    /\ proj = NoProject
    /\ symbolIndex = EmptyMap
    /\ cache = EmptyCache
    /\ last = NoLast
    /\ res = NoRes
    /\ tRoots = <<>>
    /\ tRes = emptyBlastResult
    /\ PanelIdle
    /\ intent = NoIntent
    /\ restore = NoRestore
    /\ sig = NoSig
    /\ AuxIdle

\* computeInEditorBlastRadius(rippleIds, removedIds, preRemovalDependents,
\* graph) on the live graph; the live maps afterwards are what the heap
\* holds under their references.
InEditorCall(rippleIds, removedIds, pre) ==
    /\ pc = "input"
    /\ pc' = "done"
    /\ \E r \in {computeInEditorBlastRadius(rippleIds, removedIds, pre,
                    EditorHeap([forward |-> forward, reverse |-> reverse]))} :
           /\ forward' = r.heap["lf"]
           /\ reverse' = r.heap["lr"]
           /\ tRoots' = r.roots
           /\ tRes' = r.result
           /\ res' = IF r.threw THEN [NoRes EXCEPT !.error = TypeError] ELSE NoRes
    /\ last' = [op |-> "in-editor", file |-> NoFile, text |-> NoFile]
    /\ UNCHANGED panelVars
    /\ UNCHANGED intent
    /\ UNCHANGED restore
    /\ UNCHANGED sig
    /\ UNCHANGED auxVars
    /\ UNCHANGED <<disk, proj, symbolIndex, cache, tGraph>>

NextInEditor ==
    \E c \in ChangedIds : \E pre \in Snapshots : InEditorCall(c[1], c[2], pre)

SpecInEditor == InitInEditor /\ [][NextInEditor]_vars

\* C18: computeInEditorBlastRadius never mutates the live graph.  For any
\* ripple ids, removed ids and snapshot, the live forward and reverse maps
\* (keys and member sets) are the same after the call as before it.
C18_LiveGraphUntouched ==
    [][last'.op = "in-editor" => (forward' = forward /\ reverse' = reverse)]_vars

\* A call whose only root is a deleted symbol and whose direct impact holds
\* a dependent that the live reverse map does not list for that root: it
\* was reached through the overlay.
C18_Witness ==
    /\ last.op = "in-editor"
    /\ Len(tRoots) = 1
    /\ tRoots[1].reason = "deleted"
    /\ \E x \in tRes.directImpact : x \notin MapGet(reverse, tRoots[1].symbolId)

----------------------------------------------------------------------------
(* Specification 6: the what-if pipeline (parse, resolve, predict, post)   *)

MaxKeywords == 4
MaxScored == 1

\* SymbolEntry.isExported: the texts export a and keep b private.
IsExported(id) == NameOf(id) = "a"

\* parseIntent, by the step at which it returns.  promptEmpty: the trimmed
\* prompt is empty; model: what selectModel did ("throws", "none", "ok");
\* request: how the request and the response stream ended ("throws",
\* "cancelled", "ok"); parsable: parseResponse accepted the raw response.
parseIntent(promptEmpty, model, request, parsable) ==
    IF promptEmpty THEN [ok |-> FALSE, reason |-> "Prompt is empty"]
    ELSE IF model = "throws" THEN [ok |-> FALSE, reason |-> "Failed to acquire LLM model"]
    ELSE IF model = "none" THEN [ok |-> FALSE, reason |-> "No Copilot language model available"]
    ELSE IF request = "cancelled" THEN [ok |-> FALSE, reason |-> "Cancelled"]
    ELSE IF request = "throws" THEN [ok |-> FALSE, reason |-> "LLM request failed"]
    ELSE IF ~parsable THEN [ok |-> FALSE, reason |-> "unparsable response"]
    ELSE [ok |-> TRUE, reason |-> ""]

\* Scores are exact fractions.  A hint score is a number of hundredths.  A
\* keyword score of a prompt with n keywords is a number of (1 / (100 n)):
\* scoreByKeywords is matchedPoints / n capped at 1, where matchedPoints is
\* a sum of 1.0, 0.7 and 0.4, given here in tenths; null is 0 points.
scoreByKeywords(n, points) == IF 10 * points > 100 * n THEN 100 * n ELSE 10 * points

\* Math.min(1, entry.isExported ? ks + 0.05 : ks)
KeywordScore(n, points, id) ==
    LET Bonus(ks) == IF IsExported(id) THEN ks + 5 * n ELSE ks
        Cap(v) == IF v > 100 * n THEN 100 * n ELSE v
    IN  Cap(Bonus(scoreByKeywords(n, points)))

\* scoreToConfidence on a score of `value` units of 1 / unit.
scoreToConfidence(value, unit) ==
    IF 100 * value >= 85 * unit THEN "high"
    ELSE IF 100 * value >= 45 * unit THEN "medium"
    ELSE "low"

\* Array.prototype.sort((a, b) => b.score - a.score): stable, descending.
RECURSIVE InsertByScore(_, _, _)
InsertByScore(sorted, id, score) ==
    IF sorted = <<>> THEN <<id>>
    ELSE IF score[Head(sorted)] >= score[id]
         THEN <<Head(sorted)>> \o InsertByScore(Tail(sorted), id, score)
         ELSE <<id>> \o sorted

RECURSIVE SortByScore(_, _, _)
SortByScore(ids, score, sorted) ==
    IF ids = <<>> THEN sorted
    ELSE SortByScore(Tail(ids), score, InsertByScore(sorted, Head(ids), score))

MAX_RESOLVED == 20
MAX_KEYWORD_RESOLVED == 10

slice(seq, n) == SubSeq(seq, 1, IF Len(seq) < n THEN Len(seq) ELSE n)

\* resolveIntent(descriptor, symbolIndex, ...).  hintScore[id] is the
\* combined Pass 1 score of the entry in hundredths (0: no hint matched);
\* points[id] are the entry's matchedPoints for the nKeywords keywords of
\* the prompt.
resolveIntent(descriptor, index, hintScore, nKeywords, points) ==
    LET ids == IdSeq(DOMAIN index)
        hintCandidates ==
            IF descriptor.symbolHints # <<>>
            THEN SortByScore(SelectSeq(ids, LAMBDA id : hintScore[id] >= 45), hintScore, <<>>)
            ELSE <<>>
        kscore == [id \in DOMAIN index |-> KeywordScore(nKeywords, points[id], id)]
        scored == IF nKeywords > 0 THEN {id \in DOMAIN index : points[id] > 0} ELSE {}
        bestKeywordScore ==
            IF scored = {} THEN 0
            ELSE kscore[CHOOSE id \in scored : \A o \in scored : kscore[o] <= kscore[id]]
        keywordCandidates ==
            SortByScore(SelectSeq(ids, LAMBDA id : id \in scored /\ kscore[id] >= 25 * nKeywords),
                        kscore, <<>>)
        isRelevant == \/ hintCandidates # <<>>
                      \/ (nKeywords > 0 /\ bestKeywordScore >= 30 * nKeywords)
        finalCandidates == IF hintCandidates # <<>>
                           THEN slice(hintCandidates, MAX_RESOLVED)
                           ELSE slice(keywordCandidates, MAX_KEYWORD_RESOLVED)
        symbols == [i \in 1..Len(finalCandidates) |->
                       [symbolId   |-> finalCandidates[i],
                        confidence |-> IF hintCandidates # <<>>
                                       THEN scoreToConfidence(hintScore[finalCandidates[i]], 100)
                                       ELSE scoreToConfidence(kscore[finalCandidates[i]],
                                                              100 * nKeywords)]]
    IN  [changeType |-> descriptor.changeType,
         affectsPublicApi |-> descriptor.affectsPublicApi,
         symbols |-> symbols, symbolHints |-> descriptor.symbolHints,
         isRelevant |-> isRelevant]

\* What the handler sends to the webview or writes: the posts "intent",
\* "predicted" and "error", and the report file "impact.json".
WhatIfPost(what) == [kind |-> "whatIf", what |-> what]

\* The workspaces of this specification: both files exist.
WhatIfWorkspaces == {d \in DiskStates : \A f \in Files : d[f] # NoFile}

\* The descriptors an accepted oracle response can carry.
Descriptors ==
    [changeType : {"delete", "modify", "add"}, affectsPublicApi : BOOLEAN,
     symbolHints : HintLists]

NoDescriptor == [changeType |-> "none", affectsPublicApi |-> FALSE, symbolHints |-> <<>>]

\* Scores of the index entries with at most MaxScored entries scored.
ScoreMaps(index, values) ==
    {m \in [DOMAIN index -> values \cup {0}] :
        Cardinality({id \in DOMAIN index : m[id] # 0}) <= MaxScored}

\* Pass 1 scores: a match below the threshold and a near-exact match.
HintScores == {30, 90}

\* matchedPoints in tenths: a prefix match, an exact match.
KeywordPoints == {7, 10}

ParseResults ==
    {parseIntent(promptEmpty, model, request, parsable) :
        promptEmpty \in BOOLEAN, model \in {"throws", "none", "ok"},
        request \in {"throws", "cancelled", "ok"}, parsable \in BOOLEAN}

InitWhatIf ==
    /\ pc = "running"
    /\ disk \in WhatIfWorkspaces
    /\ proj = disk
    /\ symbolIndex = buildSymbolIndex(disk)
    /\ forward \in {buildReferenceGraph(disk, symbolIndex).forward}
    /\ reverse \in {buildReferenceGraph(disk, symbolIndex).reverse}
    /\ cache = EmptyCache
    /\ last = NoLast
    /\ res = NoRes
    /\ tRoots = <<>>
    /\ tGraph = EmptyGraph
    /\ tRes = emptyBlastResult
    /\ PanelIdle
    /\ intent = NoIntent
    /\ restore = NoRestore
    /\ sig = NoSig
    /\ AuxIdle

\* onWhatIfRequest after `await parseIntent` when the parse succeeded: post
\* the intent, resolve, predict, post the prediction, write the report.
RunPipeline(descriptor, heap, hintScore, nKeywords, points) ==
    LET Predict(resolved) ==
            LET Done(r) == [threw |-> FALSE, heap |-> r.heap, resolved |-> resolved,
                            result |-> r.result,
                            posts |-> <<WhatIfPost("intent"), WhatIfPost("predicted"),
                                        WhatIfPost("impact.json")>>]
            IN  Done(computePredictiveBlastRadius(resolved, heap))
    IN  Predict(resolveIntent(descriptor, heap["li"], hintScore, nKeywords, points))

onWhatIfRequest_NoOkCheck(parseResult, descriptor, heap, hintScore, nKeywords, points) ==
    RunPipeline(descriptor, heap, hintScore, nKeywords, points)

\* onWhatIfRequest after `await parseIntent`: a failed parse throws.
onWhatIfRequest(parseResult, descriptor, heap, hintScore, nKeywords, points) ==
    IF ~parseResult.ok
    THEN [threw |-> TRUE, heap |-> heap, resolved |-> NoIntent, result |-> NoRes,
          posts |-> <<>>]
    ELSE RunPipeline(descriptor, heap, hintScore, nKeywords, points)

\* The webview sends `whatIf`: onWhatIfRequest runs to `await parseIntent`.
WhatIfAsk ==
    /\ pc = "running"
    /\ last.op = "init"
    /\ last' = [op |-> "asked", file |-> NoFile, text |-> NoFile]
    /\ UNCHANGED <<pc, disk, proj, symbolIndex, forward, reverse, cache, res, intent>>
    /\ UNCHANGED <<travVars, panelVars, restore, sig, auxVars>>

\* onWhatIfRequest resumes with the result of parseIntent.  When it throws,
\* the catch of the webview's message handler posts the error.
WhatIfParsed(parseResult, descriptor, hintScore, nKeywords, points) ==
    /\ last.op = "asked"
    /\ \E o \in {onWhatIfRequest(parseResult, descriptor,
                       LiveHeap(symbolIndex, [forward |-> forward, reverse |-> reverse]),
                       hintScore, nKeywords, points)} :
           IF o.threw
           THEN /\ delivered' = Append(delivered, WhatIfPost("error"))
                /\ UNCHANGED <<proj, symbolIndex, forward, reverse, res, intent>>
           ELSE /\ SetWorld([index |-> o.heap["li"], graph |-> o.heap["lg"],
                             project |-> proj])
                /\ res' = o.result
                /\ intent' = o.resolved
                /\ delivered' = delivered \o o.posts
    /\ last' = [op |-> "what-if", file |-> NoFile,
                text |-> IF parseResult.ok THEN descriptor.changeType ELSE parseResult.reason]
    /\ UNCHANGED <<pc, disk, cache, analysisVersion, runs, restore, sig, auxVars>>
    /\ UNCHANGED travVars

NextWhatIf ==
    \/ WhatIfAsk
    \/ \E parseResult \in {p \in ParseResults : ~p.ok} :
          WhatIfParsed(parseResult, NoDescriptor, [id \in DOMAIN symbolIndex |-> 0], 0,
                       [id \in DOMAIN symbolIndex |-> 0])
    \/ /\ last.op = "asked"
       /\ \E descriptor \in Descriptors :
          \E hintScore \in ScoreMaps(symbolIndex, HintScores) :
          \E nKeywords \in 0..MaxKeywords :
          \E points \in ScoreMaps(symbolIndex, KeywordPoints) :
             /\ (descriptor.symbolHints = <<>> => \A id \in DOMAIN symbolIndex : hintScore[id] = 0)
             /\ (nKeywords = 0 => \A id \in DOMAIN symbolIndex : points[id] = 0)
             /\ \A id \in DOMAIN symbolIndex : points[id] <= 10 * nKeywords
             /\ WhatIfParsed(parseIntent(FALSE, "ok", "ok", TRUE), descriptor, hintScore,
                             nKeywords, points)

SpecWhatIf == InitWhatIf /\ [][NextWhatIf]_vars

\* C22: irrelevant prompts produce no impact.  Whenever resolveIntent
\* yields isRelevant = false, the predictive blast radius computed from
\* that resolution has no roots and empty directImpact and indirectImpact.
C22_IrrelevantNoImpact ==
    (last.op = "what-if" /\ intent # NoIntent /\ ~intent.isRelevant) =>
        /\ res.roots = <<>>
        /\ res.out.directImpact = {}
        /\ res.out.indirectImpact = {}

PhantomIds == {PhantomId(h) : h \in Hints}

\* Two of the hints and names are the same word up to letter case.
EqualIgnoringCase(x, y) == x = y \/ {x, y} = {"a", "A"}

\* The phantoms an add intent asks for: one per symbol hint that is not,
\* ignoring case, the name of a resolved symbol.
ExpectedPhantoms ==
    {PhantomId(intent.symbolHints[i]) :
        i \in {j \in 1..Len(intent.symbolHints) :
                  \A k \in 1..Len(intent.symbols) :
                      ~EqualIgnoringCase(intent.symbolHints[j],
                                         NameOf(intent.symbols[k].symbolId))}}

\* C24: phantoms are display-only.  For an add intent a phantom id is
\* created for each symbol hint that does not equal, ignoring case, the
\* name of a resolved symbol; phantom ids exist only in the shadow index
\* and never in the live index, the roots, directImpact, indirectImpact or
\* depthMap.  Other intents create none.
C24_PhantomsDisplayOnly ==
    (last.op = "what-if" /\ intent # NoIntent) =>
        /\ Range(res.phantomIds) =
              (IF intent.changeType = "add" THEN ExpectedPhantoms ELSE {})
        /\ Range(res.phantomIds) \subseteq DOMAIN res.stagedIndex
        /\ PhantomIds \cap DOMAIN symbolIndex = {}
        /\ PhantomIds \cap RootIds(res.roots) = {}
        /\ PhantomIds \cap res.out.directImpact = {}
        /\ PhantomIds \cap res.out.indirectImpact = {}
        /\ PhantomIds \cap DOMAIN res.out.depthMap = {}

\* An add prediction with two hints, one naming a resolved symbol in
\* another case and one naming nothing: one phantom, and a real impact.
C24_Witness ==
    /\ last.op = "what-if"
    /\ intent.changeType = "add"
    /\ Len(intent.symbolHints) = 2
    /\ Len(res.phantomIds) = 1
    /\ \E i \in 1..2 : \E k \in 1..Len(intent.symbols) :
          /\ intent.symbolHints[i] # NameOf(intent.symbols[k].symbolId)
          /\ EqualIgnoringCase(intent.symbolHints[i], NameOf(intent.symbols[k].symbolId))
    /\ res.out.directImpact # {}

\* The reasons parseIntent gives when it fails.
FailureReasons == {p.reason : p \in {q \in ParseResults : ~q.ok}}

\* C30: oracle failure stops the pipeline.  When parseIntent returns
\* ok = false, the step that handles it resolves no symbols and runs no
\* traversal (intent and result stay as they were, the live index and graph
\* too), delivers no prediction and writes no report: the only thing it
\* sends is one error.
C30_ParseFailureStops ==
    [][(last.op = "asked" /\ last'.op = "what-if" /\ last'.text \in FailureReasons) =>
          /\ intent' = intent
          /\ res' = res
          /\ symbolIndex' = symbolIndex /\ forward' = forward /\ reverse' = reverse
          /\ delivered' = Append(delivered, WhatIfPost("error"))]_vars

\* A request whose response stream was cancelled ended with an error post
\* only.
C30_Witness ==
    /\ last.op = "what-if"
    /\ last.text = "Cancelled"
    /\ delivered = <<WhatIfPost("error")>>

----------------------------------------------------------------------------
(* Specification 7: the two passes of the cache restore, file by file      *)

MaxRestoreFiles == 21
MaxFresh == 1
MaxFailures == 1

\* `if (++staleI % 20 === 0) { await yield_(); }`
YIELD_EVERY == 20

\* project.getSourceFiles()
RestoreFiles == 1..MaxRestoreFiles

RECURSIVE SmallSubsets(_, _)
SmallSubsets(S, k) ==
    IF k = 0 THEN {{}}
    ELSE LET P == SmallSubsets(S, k - 1)
         IN  P \cup {X \cup {e} : X \in P, e \in S}

\* The cache-hit branch starts with the cached index and graph restored and
\* some files changed on disk since the cache was written.
InitRestore ==
    /\ pc = "running"
    /\ \E fresh \in SmallSubsets(RestoreFiles, MaxFresh) :
          restore = RestoreState("pass1", [i \in RestoreFiles |-> i], RestoreFiles \ fresh)
    /\ disk = NoProject
    /\ proj = NoProject
    /\ symbolIndex = EmptyMap
    /\ forward = EmptyMap
    /\ reverse = EmptyMap
    /\ cache = EmptyCache
    /\ last = NoLast
    /\ res = NoRes
    /\ tRoots = <<>>
    /\ tGraph = EmptyGraph
    /\ tRes = emptyBlastResult
    /\ PanelIdle
    /\ intent = NoIntent
    /\ sig = NoSig
    /\ AuxIdle

\* The body of the Pass 1 loop for a stale file, with the walk done at once.
VisitStale_Interleaved(r, fp, refreshOk) ==
    IF refreshOk
    THEN [r EXCEPT !.evicted = @ \cup {fp}, !.extracted = @ \cup {fp},
                   !.staleSourceFiles = Append(@, fp), !.walked = @ \cup {fp}]
    ELSE [r EXCEPT !.evicted = @ \cup {fp}, !.failed = @ \cup {fp}]

\* The body of the Pass 1 loop for a stale file: removeFileFromGraph, then
\* refreshFromFileSystemSync; when that throws the file stays evicted and is
\* not queued, otherwise its symbols are extracted and it is queued.
VisitStale(r, fp, refreshOk) ==
    IF refreshOk
    THEN [r EXCEPT !.evicted = @ \cup {fp}, !.extracted = @ \cup {fp},
                   !.staleSourceFiles = Append(@, fp)]
    ELSE [r EXCEPT !.evicted = @ \cup {fp}, !.failed = @ \cup {fp}]

\* `if (++staleI % 20 === 0) { await yield_(); }` at the end of an iteration
\* of the loop `pass`.
CountAndYield(r, pass) ==
    [r EXCEPT !.staleI = @ + 1,
              !.at = IF (r.staleI + 1) % YIELD_EVERY = 0 THEN "yield" \o pass ELSE "pass" \o pass,
              !.yields = IF (r.staleI + 1) % YIELD_EVERY = 0 THEN @ + 1 ELSE @]

\* One iteration of the Pass 1 loop.  The `continue` of a failed refresh
\* skips the count and the yield.
RestorePass1Step(refreshOk) ==
    /\ restore.at = "pass1"
    /\ restore.files # <<>>
    /\ LET fp   == Head(restore.files)
           rest == [restore EXCEPT !.files = Tail(@)]
       IN  /\ (~refreshOk) => /\ fp \in restore.changed
                              /\ Cardinality(restore.failed) < MaxFailures
           /\ restore' = IF fp \in restore.changed
                         THEN IF refreshOk
                              THEN CountAndYield(VisitStale(rest, fp, TRUE), "1")
                              ELSE VisitStale(rest, fp, FALSE)
                         ELSE CountAndYield(rest, "1")
    /\ UNCHANGED <<pc, disk, proj, symbolIndex, forward, reverse, cache, last, res, intent,
                   sig, auxVars>>
    /\ UNCHANGED travVars
    /\ UNCHANGED panelVars

\* setImmediate fires: the loop that yielded goes on.
RestoreResume ==
    /\ restore.at \in {"yield1", "yield2"}
    /\ restore' = [restore EXCEPT !.at = IF restore.at = "yield1" THEN "pass1" ELSE "pass2"]
    /\ UNCHANGED <<pc, disk, proj, symbolIndex, forward, reverse, cache, last, res, intent,
                   sig, auxVars>>
    /\ UNCHANGED travVars
    /\ UNCHANGED panelVars

\* The Pass 1 loop ends; `staleI = 0`.
RestoreStartPass2 ==
    /\ restore.at = "pass1"
    /\ restore.files = <<>>
    /\ restore' = [restore EXCEPT !.at = "pass2", !.staleI = 0]
    /\ UNCHANGED <<pc, disk, proj, symbolIndex, forward, reverse, cache, last, res, intent,
                   sig, auxVars>>
    /\ UNCHANGED travVars
    /\ UNCHANGED panelVars

\* One iteration of the Pass 2 loop: walkSourceFile of the next queued file.
RestorePass2Step ==
    /\ restore.at = "pass2"
    /\ restore.next <= Len(restore.staleSourceFiles)
    /\ restore' = CountAndYield([restore EXCEPT
                                    !.walked = @ \cup {restore.staleSourceFiles[restore.next]},
                                    !.next = @ + 1], "2")
    /\ UNCHANGED <<pc, disk, proj, symbolIndex, forward, reverse, cache, last, res, intent,
                   sig, auxVars>>
    /\ UNCHANGED travVars
    /\ UNCHANGED panelVars

\* The Pass 2 loop ends; the branch goes on to the removal of deleted files
\* and the saves.
RestoreFinish ==
    /\ restore.at = "pass2"
    /\ restore.next > Len(restore.staleSourceFiles)
    /\ restore' = [restore EXCEPT !.at = "done"]
    /\ UNCHANGED <<pc, disk, proj, symbolIndex, forward, reverse, cache, last, res, intent,
                   sig, auxVars>>
    /\ UNCHANGED travVars
    /\ UNCHANGED panelVars

NextRestore ==
    \/ \E refreshOk \in BOOLEAN : RestorePass1Step(refreshOk)
    \/ RestoreResume
    \/ RestoreStartPass2
    \/ RestorePass2Step
    \/ RestoreFinish

SpecRestore == InitRestore /\ [][NextRestore]_vars

\* C28 (two-pass ordering): during the startup cache restore with several
\* stale files, no reference walk of any stale file starts before every
\* stale file has been evicted and re-extracted, also across the cooperative
\* yields taken every 20 files.  Once a file has been walked, Pass 1 has
\* visited every source file: every stale file is evicted, and re-extracted
\* and queued unless its refresh threw (such a file stays evicted and is
\* never walked).
C28_TwoPassOrdering ==
    restore.walked # {} =>
        /\ restore.files = <<>>
        /\ restore.changed \subseteq restore.evicted
        /\ restore.changed \ restore.failed \subseteq restore.extracted
        /\ restore.walked \subseteq restore.extracted

\* Both loops have yielded, and a walk has run after the yield of Pass 1.
C28_Witness ==
    /\ restore.at = "yield2"
    /\ restore.yields >= 2
    /\ Cardinality(restore.changed) >= 2
    /\ restore.walked # {}

----------------------------------------------------------------------------
(* Specification 8: canonicalizeType applied to bounded type texts.  A     *)
(* text is the sequence of its characters.                                 *)

MaxMembers == 3

\* UTF-16 code unit of a character (the order Array.prototype.sort uses).
CharCode(ch) ==
    CASE ch = " " -> 32  [] ch = "&" -> 38  [] ch = "(" -> 40  [] ch = ")" -> 41
      [] ch = ";" -> 59  [] ch = "<" -> 60  [] ch = "=" -> 61  [] ch = ">" -> 62
      [] ch = "A" -> 65  [] ch = "B" -> 66  [] ch = "[" -> 91  [] ch = "]" -> 93
      [] ch = "{" -> 123 [] ch = "|" -> 124 [] ch = "}" -> 125

\* a < b as the default comparator of sort decides it.
RECURSIVE StringLess(_, _)
StringLess(a, b) ==
    IF b = <<>> THEN FALSE
    ELSE IF a = <<>> THEN TRUE
    ELSE IF Head(a) # Head(b) THEN CharCode(Head(a)) < CharCode(Head(b))
    ELSE StringLess(Tail(a), Tail(b))

RECURSIVE InsertSorted(_, _)
InsertSorted(sorted, x) ==
    IF sorted = <<>> THEN <<x>>
    ELSE IF StringLess(x, Head(sorted)) THEN <<x>> \o sorted
    ELSE <<Head(sorted)>> \o InsertSorted(Tail(sorted), x)

\* parts.sort()
RECURSIVE sort(_)
sort(parts) ==
    IF parts = <<>> THEN <<>>
    ELSE InsertSorted(sort(SubSeq(parts, 1, Len(parts) - 1)), parts[Len(parts)])

\* parts.join(sep)
RECURSIVE join(_, _)
join(parts, sep) ==
    IF parts = <<>> THEN <<>>
    ELSE IF Len(parts) = 1 THEN parts[1]
    ELSE parts[1] \o sep \o join(Tail(parts), sep)

\* text.replace(/\s+/g, ' ')
RECURSIVE collapseWhitespace(_)
collapseWhitespace(text) ==
    IF text = <<>> THEN <<>>
    ELSE IF Head(text) = " " /\ Len(text) > 1 /\ text[2] = " "
         THEN collapseWhitespace(Tail(text))
    ELSE <<Head(text)>> \o collapseWhitespace(Tail(text))

\* text.trim()
RECURSIVE trim(_)
trim(text) ==
    IF text = <<>> THEN <<>>
    ELSE IF Head(text) = " " THEN trim(Tail(text))
    ELSE IF text[Len(text)] = " " THEN trim(SubSeq(text, 1, Len(text) - 1))
    ELSE text

\* text.startsWith(sep, i), with i counted from 1.
startsWith(text, sep, i) ==
    /\ i + Len(sep) - 1 <= Len(text)
    /\ SubSeq(text, i, i + Len(sep) - 1) = sep

\* text.includes(sep)
includes(text, sep) == \E i \in 1..Len(text) : startsWith(text, sep, i)

\* The loop of splitTopLevel and the push after it; i and start count from 1.
RECURSIVE SplitLoop(_, _, _, _, _, _)
SplitLoop(text, sep, i, start, depth, parts) ==
    IF i > Len(text)
    THEN IF start <= Len(text) THEN Append(parts, SubSeq(text, start, Len(text))) ELSE parts
    ELSE IF text[i] \in {"<", "{", "(", "["}
         THEN SplitLoop(text, sep, i + 1, start, depth + 1, parts)
    ELSE IF text[i] \in {">", "}", ")", "]"}
         THEN SplitLoop(text, sep, i + 1, start, depth - 1, parts)
    ELSE IF depth = 0 /\ startsWith(text, sep, i)
         THEN SplitLoop(text, sep, i + Len(sep), i + Len(sep), depth,
                        Append(parts, SubSeq(text, start, i - 1)))
    ELSE SplitLoop(text, sep, i + 1, start, depth, parts)

splitTopLevel(text, sep) == SplitLoop(text, sep, 1, 1, 0, <<>>)

TrimAll(parts) == [i \in 1..Len(parts) |-> trim(parts[i])]

\* `if (s.includes(sep)) { parts = splitTopLevel(s, sep); if (parts.length > 1)
\* s = parts.map(trim).sort().join(sep) }`
SortMembers(s, sep) ==
    IF includes(s, sep)
    THEN LET Sorted(parts) == IF Len(parts) > 1 THEN join(sort(TrimAll(parts)), sep) ELSE s
         IN  Sorted(splitTopLevel(s, sep))
    ELSE s

\* The object-literal step of canonicalizeType.
SortProperties(s) ==
    IF s # <<>> /\ Head(s) = "{" /\ s[Len(s)] = "}"
    THEN LET Wrap(props) == <<"{", " ">> \o join(props, <<";", " ">>) \o <<" ", "}">>
         IN  Wrap(sort(SelectSeq(TrimAll(splitTopLevel(trim(SubSeq(s, 2, Len(s) - 1)),
                                                       <<";", " ">>)),
                                 LAMBDA p : p # <<>>)))
    ELSE s

canonicalizeType(raw) ==
    SortProperties(SortMembers(SortMembers(trim(collapseWhitespace(raw)),
                                           <<" ", "|", " ">>),
                               <<" ", "&", " ">>))

\* Union members as TypeScript prints them: A, B, A[], (() => A).
UnionMembers ==
    {<<"A">>, <<"B">>, <<"A", "[", "]">>,
     <<"(", "(", ")", " ", "=", ">", " ", "A", ")">>}

MemberLists == UNION {[1..n -> UnionMembers] : n \in 1..MaxMembers}

\* The bijections of 1..n.
Bijections(n) == {p \in [1..n -> 1..n] : \A i \in 1..n : \E j \in 1..n : p[j] = i}

UnionText(members) == join(members, <<" ", "|", " ">>)

\* The places of a text where white space may be added without changing the
\* type: before and after every character, except inside the token `=>`.
TokenBoundaries(text) ==
    {p \in 0..Len(text) : ~(p >= 1 /\ p < Len(text) /\ text[p] = "=" /\ text[p + 1] = ">")}

\* text with a blank added after its first p characters.
AddWhitespace(text, p) == SubSeq(text, 1, p) \o <<" ">> \o SubSeq(text, p + 1, Len(text))

\* The pairs of texts that denote the same type: a union and a permutation
\* of it, a text and the same text with extra white space.
SigPair(kind, raw1, raw2) ==
    [kind |-> kind, raw1 |-> raw1, raw2 |-> raw2, out1 |-> <<>>, out2 |-> <<>>]

SigInputs ==
    UNION {{SigPair("permuted", UnionText(m), UnionText([i \in 1..Len(m) |-> m[p[i]]])) :
               p \in Bijections(Len(m))} \cup
           {SigPair("spaced", UnionText(m), AddWhitespace(UnionText(m), p)) :
               p \in TokenBoundaries(UnionText(m))} :
              m \in MemberLists}

InitSignature ==
    /\ pc = "input"
    /\ sig \in SigInputs
    /\ disk = NoProject
    /\ proj = NoProject
    /\ symbolIndex = EmptyMap
    /\ forward = EmptyMap
    /\ reverse = EmptyMap
    /\ cache = EmptyCache
    /\ last = NoLast
    /\ res = NoRes
    /\ tRoots = <<>>
    /\ tGraph = EmptyGraph
    /\ tRes = emptyBlastResult
    /\ PanelIdle
    /\ intent = NoIntent
    /\ restore = NoRestore
    /\ AuxIdle

\* canonicalizeType applied to both texts.
Canonicalize ==
    /\ pc = "input"
    /\ pc' = "done"
    /\ sig' = [sig EXCEPT !.out1 = canonicalizeType(sig.raw1),
                          !.out2 = canonicalizeType(sig.raw2)]
    /\ UNCHANGED <<disk, proj, symbolIndex, forward, reverse, cache, last, res, intent, restore,
                   auxVars>>
    /\ UNCHANGED travVars
    /\ UNCHANGED panelVars

NextSignature == Canonicalize

SpecSignature == InitSignature /\ [][NextSignature]_vars

\* C29 (signature canonicalization is order- and whitespace-insensitive):
\* canonicalizeType returns the same string for any permutation of the
\* top-level union members of a type, including members that contain
\* brackets or arrow types, and adding extra white space inside a type never
\* changes the result.
C29_CanonicalForm ==
    pc = "done" => sig.out1 = sig.out2

----------------------------------------------------------------------------
(* Further properties of the lifecycle specification                       *)

\* Edge a -> b of a map of sets.
EdgeIn(map, a, b) == MapHas(map, a) /\ b \in map[a]

----------------------------------------------------------------------------
(* Specification 9: one bfsUnlimited and one backward walk of buildPaths,  *)
(* one loop iteration at a time, on graphs that may have cycles            *)

MaxBfsEdges == 3

\* Reverse-edge graphs with self-references and cycles.
BfsGraphs ==
    {GraphOf(E) : E \in {X \in SUBSET (Ids \X Ids) : Cardinality(X) <= MaxBfsEdges}}

\* The locals of bfsUnlimited before its loop, then those of the walk.
BfsStart(rootId) ==
    [at |-> "loop", rootId |-> rootId,
     queue |-> <<[id |-> rootId, depth |-> 0]>>,
     localDepth |-> MapSet(EmptyMap, rootId, 0),
     parent |-> MapSet(EmptyMap, rootId, Null),
     pushed |-> <<rootId>>, target |-> Null, cur |-> Null, path |-> <<>>]

InitBfs ==
    /\ pc = "input"
    /\ tGraph \in BfsGraphs
    /\ \E rootId \in Ids : bfs = BfsStart(rootId)
    /\ tRoots = <<>>
    /\ tRes = emptyBlastResult
    /\ disk = NoProject
    /\ proj = NoProject
    /\ symbolIndex = EmptyMap
    /\ forward = EmptyMap
    /\ reverse = EmptyMap
    /\ cache = EmptyCache
    /\ last = NoLast
    /\ res = NoRes
    /\ PanelIdle
    /\ intent = NoIntent
    /\ restore = NoRestore
    /\ sig = NoSig
    /\ BfsRestIdle

\* The ids of the queue entries of q from position n on.
PushedFrom(q, n) == [i \in 1..(Len(q) - n + 1) |-> q[n + i - 1].id]

\* One iteration of `while (queue.length > 0)`.
BfsLoopStep ==
    /\ bfs.at = "loop"
    /\ bfs.queue # <<>>
    /\ \E st \in {BfsIteration(tGraph, [queue |-> bfs.queue, localDepth |-> bfs.localDepth,
                                        parent |-> bfs.parent, global |-> EmptyMap])} :
          bfs' = [bfs EXCEPT !.queue = st.queue, !.localDepth = st.localDepth,
                             !.parent = st.parent,
                             !.pushed = @ \o PushedFrom(st.queue, Len(bfs.queue))]
    /\ UNCHANGED <<pc, disk, proj, symbolIndex, forward, reverse, cache, last, res, intent,
                   restore, sig>>
    /\ UNCHANGED travVars
    /\ UNCHANGED panelVars
    /\ UNCHANGED bfsRest

\* The loop ends; buildPaths starts the walk for an id the root reaches:
\* `path = [id]; cur = parentMap.get(id)`.
BfsWalkStart(id) ==
    /\ bfs.at = "loop"
    /\ bfs.queue = <<>>
    /\ MapHas(bfs.parent, id)
    /\ bfs' = [bfs EXCEPT !.at = "walk", !.target = id, !.cur = bfs.parent[id],
                          !.path = <<id>>]
    /\ UNCHANGED <<pc, disk, proj, symbolIndex, forward, reverse, cache, last, res, intent,
                   restore, sig>>
    /\ UNCHANGED travVars
    /\ UNCHANGED panelVars
    /\ UNCHANGED bfsRest

\* One iteration of `while (cur !== null && cur !== undefined)`.
BfsWalkStep ==
    /\ bfs.at = "walk"
    /\ bfs.cur # Null
    /\ bfs' = [bfs EXCEPT !.path = <<bfs.cur>> \o @,
                          !.cur = IF MapHas(bfs.parent, bfs.cur)
                                  THEN bfs.parent[bfs.cur] ELSE Null]
    /\ UNCHANGED <<pc, disk, proj, symbolIndex, forward, reverse, cache, last, res, intent,
                   restore, sig>>
    /\ UNCHANGED travVars
    /\ UNCHANGED panelVars
    /\ UNCHANGED bfsRest

\* The walk ends: `allPaths.push(path)`.
BfsWalkEnd ==
    /\ bfs.at = "walk"
    /\ bfs.cur = Null
    /\ bfs' = [bfs EXCEPT !.at = "done"]
    /\ UNCHANGED <<pc, disk, proj, symbolIndex, forward, reverse, cache, last, res, intent,
                   restore, sig>>
    /\ UNCHANGED travVars
    /\ UNCHANGED panelVars
    /\ UNCHANGED bfsRest

NextBfs ==
    \/ BfsLoopStep
    \/ \E id \in Ids : BfsWalkStart(id)
    \/ BfsWalkStep
    \/ BfsWalkEnd

\* The loops are straight-line code: an enabled iteration is taken.
SpecBfs == InitBfs /\ [][NextBfs]_vars /\ WF_vars(NextBfs)

\* C32 (traversal terminates on cyclic graphs): within one deep root's BFS
\* each node is enqueued at most once; the BFS loop and the walk along the
\* parent links both end, for every graph (cycles and self-references
\* included) and every root, and the walk ends at the root.
C32_TraversalTerminates ==
    /\ [](\A i \in 1..Len(bfs.pushed) : \A j \in 1..Len(bfs.pushed) :
             bfs.pushed[i] = bfs.pushed[j] => i = j)
    /\ <>(bfs.at = "done" /\ Head(bfs.path) = bfs.rootId)

\* A walk of three nodes has ended at the root of a graph with a cycle
\* through the root.
C32_Witness ==
    /\ bfs.at = "done"
    /\ Len(bfs.path) = 3
    /\ EdgeIn(tGraph.reverse, bfs.target, bfs.rootId)

\* ------------------------------------------------------------------------
\* Further properties of the traversal specification
\* ------------------------------------------------------------------------

\* Roots of either propagation mode that reach x over reverse edges.
ReachingRoots(x) == {r \in RootIds(tRoots) : Reaches(tGraph.reverse, r, x)}

\* C38 (depthMap is the minimum distance from any root): every id of
\* depthMap is a non-root whose depth is the length of the shortest chain of
\* reverse edges from a root of the list, deep or shallow, to it.
C38_DepthIsMinDistance ==
    pc = "done" =>
        \A x \in DOMAIN tRes.depthMap :
            /\ x \notin RootIds(tRoots)
            /\ ReachingRoots(x) # {}
            /\ \E r \in ReachingRoots(x) : Distance(tGraph.reverse, r, x) = tRes.depthMap[x]
            /\ \A r \in ReachingRoots(x) : Distance(tGraph.reverse, r, x) >= tRes.depthMap[x]

\* ------------------------------------------------------------------------
\* Further properties of the lifecycle specification: handleFileCreated
\* ------------------------------------------------------------------------

\* C35 (handleFileCreated leaves the file's symbols exact): after
\* handleFileCreated(F), for a new file or an external change of an indexed
\* one, the index entries of F are exactly the symbols declared in F's
\* current content, and the edges whose source is a symbol of F are exactly
\* the references of that content.
C35_CreatedFileExact ==
    [][last'.op = "created" =>
          /\ snapshotSignatures(last'.file, symbolIndex')
                = extractSymbols(last'.file, last'.text)
          /\ {e \in EdgesOf(forward') : FileOf(e[1]) = last'.file}
                = ResolvedEdges(last'.file, symbolIndex', proj')]_vars

----------------------------------------------------------------------------
(* Specification 10: staged analyses and incremental updates of the live   *)
(* state, next to the same updates of a run without the staged analyses    *)

MaxLiveUpdates == 1

InitTwin ==
    /\ pc = "running"
    /\ disk \in DiskStates
    /\ proj = disk
    /\ symbolIndex = buildSymbolIndex(disk)
    /\ forward \in {buildReferenceGraph(disk, symbolIndex).forward}
    /\ reverse \in {buildReferenceGraph(disk, symbolIndex).reverse}
    /\ cache = [symbols |-> symbolIndex,
                graph   |-> persistDependencyGraph(EmptyGraphFile,
                                [forward |-> forward, reverse |-> reverse], "present"),
                hashes  |-> FileHashes(disk, disk),
                meta    |-> computeProjectHash]
    /\ last = NoLast
    /\ res = NoRes
    /\ tRoots = <<>>
    /\ tGraph = EmptyGraph
    /\ tRes = emptyBlastResult
    /\ PanelIdle
    /\ intent = NoIntent
    /\ restore = NoRestore
    /\ sig = NoSig
    /\ twin = [n |-> 0, index |-> symbolIndex,
               graph |-> [forward |-> forward, reverse |-> reverse], project |-> proj]
    /\ TwinRestIdle

TwinWorld == [index |-> twin.index, graph |-> twin.graph, project |-> twin.project]

SetTwin(w) ==
    twin' = [n |-> twin.n + 1, index |-> w.index, graph |-> w.graph, project |-> w.project]

\* handleFileChanged(f, k) on the live objects, and on those of the run
\* without staged analyses.
TwinFileChanged(f, k) ==
    /\ pc = "running"
    /\ twin.n < MaxLiveUpdates
    /\ last.op # "start"
    /\ disk[f] # NoFile
    /\ SetWorld(handleFileChanged(f, k, World))
    /\ SetTwin(handleFileChanged(f, k, TwinWorld))
    /\ last' = [op |-> "changed", file |-> f, text |-> k]
    /\ UNCHANGED panelVars
    /\ UNCHANGED intent
    /\ UNCHANGED restore
    /\ UNCHANGED sig
    /\ UNCHANGED twinRest
    /\ UNCHANGED <<pc, disk, cache, res, tRoots, tGraph, tRes>>

\* handleFileCreated(f) for a file written on disk, on both.
TwinFileCreated(f, k) ==
    /\ pc = "running"
    /\ twin.n < MaxLiveUpdates
    /\ last.op # "start"
    /\ disk' = [disk EXCEPT ![f] = k]
    /\ SetWorld(handleFileCreated(f, disk', World))
    /\ SetTwin(handleFileCreated(f, disk', TwinWorld))
    /\ last' = [op |-> "created", file |-> f, text |-> k]
    /\ UNCHANGED panelVars
    /\ UNCHANGED intent
    /\ UNCHANGED restore
    /\ UNCHANGED sig
    /\ UNCHANGED twinRest
    /\ UNCHANGED <<pc, cache, res, tRoots, tGraph, tRes>>

NextTwin ==
    \/ AnalysisStart
    \/ \E l \in StagedLists : StagedAnalysis(l, {})
    \/ \E f \in Files : \E k \in Menu(f) : TwinFileChanged(f, k)
    \/ \E f \in Files : \E k \in Menu(f) : TwinFileCreated(f, k)

SpecTwin == InitTwin /\ [][NextTwin]_vars

\* C37 (staged analysis does not influence later live updates): an
\* incremental update (handleFileChanged or handleFileCreated) run on the
\* live state after staged analyses leaves the live index and graph equal to
\* those the same update gives in the run without the staged analyses.
C37_StagedDoesNotInfluenceLive ==
    (last.op \in {"changed", "created"} /\ twin.n > 0) =>
        /\ symbolIndex = twin.index
        /\ [forward |-> forward, reverse |-> reverse] = twin.graph

----------------------------------------------------------------------------
(* Specification 11: two persistDependencyGraph calls, one per section,    *)
(* interleaved at their awaits (readFile, writeFile)                       *)

MaxGwEdges == 1

\* What the single-algorithm specifications leave untouched.
LiveIdle ==
    /\ disk = NoProject
    /\ proj = NoProject
    /\ symbolIndex = EmptyMap
    /\ forward = EmptyMap
    /\ reverse = EmptyMap
    /\ cache = EmptyCache
    /\ last = NoLast
    /\ res = NoRes
    /\ intent = NoIntent
    /\ restore = NoRestore
    /\ sig = NoSig

TravIdle ==
    /\ tRoots = <<>>
    /\ tGraph = EmptyGraph
    /\ tRes = emptyBlastResult

\* The graphs handed to the writers.
GwGraphs ==
    {AddEdges(EmptyGraph, es) :
        es \in {x \in SUBSET {e \in Ids \X Ids : e[1] # e[2]} : Cardinality(x) <= MaxGwEdges}}

\* graph.json before the calls: absent, flat (earlier version), sectioned.
GwFiles ==
    {EmptyGraphFile}
    \cup {persistDependencyGraphFlat(g) : g \in GwGraphs}
    \cup {persistDependencyGraph(EmptyGraphFile, g, "present") : g \in GwGraphs}

\* A call of persistDependencyGraph(graph, workspaceRoot, section) that has
\* not read the file yet.
GwCall(graph, section) ==
    [at |-> "readFile", section |-> section, graph |-> graph, encoded |-> EmptyGraphFile]

InitGw ==
    /\ pc = "running"
    /\ \E file \in GwFiles : \E g1 \in GwGraphs : \E g2 \in GwGraphs :
          gw = [file |-> file, w |-> <<GwCall(g1, "present"), GwCall(g2, "future")>>]
    /\ LiveIdle
    /\ TravIdle
    /\ PanelIdle
    /\ GwRestIdle

\* `await readFile` returns: the synchronous code up to `await writeFile`
\* parses the bytes, replaces the section and encodes the object.
GwRead(i) ==
    /\ gw.w[i].at = "readFile"
    /\ gw' = [gw EXCEPT !.w[i].at = "writeFile",
                        !.w[i].encoded = persistDependencyGraph(gw.file, gw.w[i].graph,
                                                               gw.w[i].section)]
    /\ UNCHANGED liveVars
    /\ UNCHANGED travVars
    /\ UNCHANGED panelVars
    /\ UNCHANGED gwRest

\* writeFile replaces graph.json with the encoded object.
GwWrite(i) ==
    /\ gw.w[i].at = "writeFile"
    /\ gw' = [gw EXCEPT !.w[i].at = "persisted", !.file = gw.w[i].encoded]
    /\ UNCHANGED liveVars
    /\ UNCHANGED travVars
    /\ UNCHANGED panelVars
    /\ UNCHANGED gwRest

NextGw ==
    \/ \E i \in 1..2 : GwRead(i)
    \/ \E i \in 1..2 : GwWrite(i)

SpecGw == InitGw /\ [][NextGw]_vars

\* C34 (section writers do not clobber each other): when a call for section
\* present and a call for section future have both completed, however their
\* reads and writes interleaved, graph.json holds the present section of the
\* first and the future section of the second.
C34_SectionWritersCoexist ==
    (\A i \in 1..2 : gw.w[i].at = "persisted") =>
        /\ gw.file.fmt = "sectioned"
        /\ gw.file.present = [forward |-> serializeMap(gw.w[1].graph.forward),
                              reverse |-> serializeMap(gw.w[1].graph.reverse)]
        /\ gw.file.future = [forward |-> serializeMap(gw.w[2].graph.forward),
                             reverse |-> serializeMap(gw.w[2].graph.reverse)]

----------------------------------------------------------------------------
(* Specification 12: document edits through the debounced onEdit callback  *)

MaxEdits == 3

\* The workspace is built from disk; every file on disk is an open document
\* whose buffer holds the text on disk.
InitDeb ==
    /\ pc = "running"
    /\ disk \in {d \in DiskStates : \A f \in Files : d[f] # NoFile}
    /\ proj = disk
    /\ symbolIndex = buildSymbolIndex(disk)
    /\ forward \in {buildReferenceGraph(disk, symbolIndex).forward}
    /\ reverse \in {buildReferenceGraph(disk, symbolIndex).reverse}
    /\ cache = EmptyCache
    /\ last = NoLast
    /\ res = NoRes
    /\ intent = NoIntent
    /\ restore = NoRestore
    /\ sig = NoSig
    /\ TravIdle
    /\ PanelIdle
    /\ deb = [timer |-> NoFile, text |-> disk, invoked |-> NoProject, edited |-> {}, n |-> 0]
    /\ DebRestIdle

\* onDidChangeTextDocument -> onEdit(e.document): the wrapper returned by
\* debounce clears the pending timer and sets a new one that holds this
\* call's arguments.
DebEdit(f, k) ==
    /\ pc = "running"
    /\ deb.n < MaxEdits
    /\ k # deb.text[f]
    /\ deb' = [deb EXCEPT !.timer = f, !.text[f] = k, !.edited = @ \cup {f}, !.n = @ + 1]
    /\ UNCHANGED liveVars
    /\ UNCHANGED travVars
    /\ UNCHANGED panelVars
    /\ UNCHANGED debRest

\* The timer fires: fn(document) runs handleFileChanged with
\* document.getText() and, on a ripple, onRipple.
DebFire ==
    /\ pc = "running"
    /\ deb.timer # NoFile
    /\ deb' = [deb EXCEPT !.timer = NoFile, !.invoked[deb.timer] = deb.text[deb.timer]]
    /\ \E w \in {handleFileChanged(deb.timer, deb.text[deb.timer], World)} :
           IF w.report.ripple # {} \/ w.report.removed # {}
           THEN \E a \in {runInEditorAnalysis(w.report, w.graph)} :
                    /\ SetWorld([index |-> w.index, graph |-> a.graph,
                                 project |-> w.project])
                    /\ res' = a.result
           ELSE /\ SetWorld(w)
                /\ UNCHANGED res
    /\ last' = [op |-> "changed", file |-> deb.timer, text |-> deb.text[deb.timer]]
    /\ UNCHANGED <<pc, disk, cache, intent, restore, sig>>
    /\ UNCHANGED travVars
    /\ UNCHANGED panelVars
    /\ UNCHANGED debRest

NextDeb ==
    \/ \E f \in Files : \E k \in Menu(f) : DebEdit(f, k)
    \/ DebFire

\* The step of the timer alone: setTimeout's callback is called.
DebTimeout ==
    /\ deb.timer # NoFile
    /\ deb' = [deb EXCEPT !.timer = NoFile, !.invoked[deb.timer] = deb.text[deb.timer]]

\* A timer that is not cleared fires (the DebTimeout steps of NextDeb are
\* the DebFire steps).
SpecDeb == InitDeb /\ [][NextDeb]_vars /\ WF_deb(DebTimeout)

\* C36 (no edited document is lost by debouncing): for every document that
\* was edited, handleFileChanged is eventually invoked with the document's
\* latest text, whatever edits of other documents fall into the debounce
\* window.
C36_NoEditLost ==
    \A f \in Files : [](f \in deb.edited => <>(deb.invoked[f] = deb.text[f]))

----------------------------------------------------------------------------
(* Specification 13: diffLinesToCharRange on bounded texts                 *)

MaxTextLen == 4
MaxLine == 4

\* The characters of the texts: a letter and the line feed.
TextChars == {"a", "\n"}

SourceTexts == UNION {[1..n -> TextChars] : n \in 0..MaxTextLen}

\* The loop that collects the start offset of each line; i is the 0-based
\* index into sourceText.
RECURSIVE LineStartsLoop(_, _, _)
LineStartsLoop(sourceText, i, lineStarts) ==
    IF i >= Len(sourceText) THEN lineStarts
    ELSE LineStartsLoop(sourceText, i + 1,
                        IF sourceText[i + 1] = "\n" THEN Append(lineStarts, i + 1)
                        ELSE lineStarts)

\* Math.max(lo, Math.min(hi, n))
clamp(n, lo, hi) ==
    LET m == IF hi < n THEN hi ELSE n
    IN  IF lo > m THEN lo ELSE m

\* diffLinesToCharRange(sourceText, startLine, endLine); lineStarts[k] of
\* the code is lineStarts[k + 1] here.
diffLinesToCharRange(sourceText, startLine, endLine) ==
    LET lineStarts == LineStartsLoop(sourceText, 0, <<0>>)
        lineCount  == Len(lineStarts)
        s == clamp(startLine - 1, 0, lineCount - 1)
        e == clamp(endLine - 1, 0, lineCount - 1)
    IN  [startPos |-> lineStarts[s + 1],
         endPos   |-> IF e + 1 < Len(lineStarts) THEN lineStarts[e + 2] - 1
                      ELSE Len(sourceText) - 1]

InitLc ==
    /\ pc = "input"
    /\ \E sourceText \in SourceTexts : \E startLine \in 0..MaxLine : \E endLine \in 0..MaxLine :
          lc = [at |-> "call", sourceText |-> sourceText, startLine |-> startLine,
                endLine |-> endLine, startPos |-> 0, endPos |-> 0]
    /\ LiveIdle
    /\ TravIdle
    /\ PanelIdle
    /\ LcRestIdle

Convert ==
    /\ pc = "input"
    /\ pc' = "done"
    /\ \E r \in {diffLinesToCharRange(lc.sourceText, lc.startLine, lc.endLine)} :
          lc' = [lc EXCEPT !.at = "returned", !.startPos = r.startPos, !.endPos = r.endPos]
    /\ UNCHANGED <<disk, proj, symbolIndex, forward, reverse, cache, last, res, intent,
                   restore, sig>>
    /\ UNCHANGED travVars
    /\ UNCHANGED panelVars
    /\ UNCHANGED lcRest

NextLc == Convert

SpecLc == InitLc /\ [][NextLc]_vars

\* Offsets (0-based) of the line feeds of a text.
LineFeeds(text) == {i \in 0..(Len(text) - 1) : text[i + 1] = "\n"}

\* Number of lines of a text: one more than its line feeds.
LineCount(text) == Cardinality(LineFeeds(text)) + 1

\* Offset of the first character of the 1-based line n: the characters
\* after the (n-1)-th line feed.
FirstOffset(text, n) ==
    IF n = 1 THEN 0
    ELSE 1 + CHOOSE i \in LineFeeds(text) :
                 Cardinality({j \in LineFeeds(text) : j < i}) = n - 2

\* Offset of the last character of the 1-based line n, its line feed not
\* counted: the offset before the n-th line feed, or before the end.
LastOffset(text, n) ==
    IF n = LineCount(text) THEN Len(text) - 1
    ELSE (CHOOSE i \in LineFeeds(text) :
              Cardinality({j \in LineFeeds(text) : j < i}) = n - 1) - 1

\* The line number brought into 1..LineCount.
ClampLine(text, n) ==
    IF n < 1 THEN 1 ELSE IF n > LineCount(text) THEN LineCount(text) ELSE n

\* C39 (line range to character range): both lines are clamped to
\* [1, line count]; startPos is the offset of the first character of the
\* start line and endPos the offset of the last character of the end line,
\* the line's terminating newline excluded.
C39_LineToCharRange ==
    lc.at = "returned" =>
        /\ lc.startPos = FirstOffset(lc.sourceText, ClampLine(lc.sourceText, lc.startLine))
        /\ lc.endPos = LastOffset(lc.sourceText, ClampLine(lc.sourceText, lc.endLine))

\* ------------------------------------------------------------------------
\* Further properties of the lifecycle specification: rebuildInPlace
\* ------------------------------------------------------------------------

\* C33 (rebuild leaves a coherent cache): when rebuildInPlace has completed,
\* the persisted symbol index, the persisted graph and the persisted file
\* hashes all describe the in-memory state the rebuild reached; no artifact
\* is left from before the rebuild.
C33_RebuildCoherentCache ==
    last.op = "rebuild" =>
        /\ cache.symbols = symbolIndex
        /\ cache.graph.present = [forward |-> serializeMap(forward),
                                  reverse |-> serializeMap(reverse)]
        /\ cache.hashes = FileHashes(disk, proj)

----------------------------------------------------------------------------
(* Specification 14: the analyses of Specification 4 when every awaited    *)
(* call of a pending staged analysis returns or fails                      *)

\* The staged analysis v resumes after the call it awaits.
StagedResumes(v) ==
    /\ v \in 1..Len(runs)
    /\ \E ok \in BOOLEAN : StagedComputed(v, ok) \/ StagedListed(v, ok)

SpecPanelFair ==
    InitPanel /\ [][NextPanel]_vars /\ \A v \in 1..MaxAnalyses : WF_vars(StagedResumes(v))

\* C40 (the latest analysis always reports): once no more analyses are
\* started and the awaited calls of the pending ones have returned or
\* failed, the most recently started staged or in-editor analysis has
\* delivered a result or an error; so every analysis-started notification is
\* eventually followed by a result or an error.
C40_LatestReports ==
    /\ <>[](analysisVersion > 0 =>
              \E i \in 1..Len(delivered) :
                  /\ delivered[i].by = analysisVersion
                  /\ delivered[i].what \in {"result", "error"})
    /\ \A n \in 1..MaxAnalyses :
          [](Len(runs) >= n => <>(\E i \in 1..Len(delivered) : delivered[i].by >= n))

\* Two staged analyses were overtaken and discarded, and the third one,
\* the latest, posted after both of its awaited calls returned.
C40_Witness ==
    /\ analysisVersion = 3
    /\ runs[1] = [kind |-> "staged", at |-> "discarded"]
    /\ runs[2] = [kind |-> "staged", at |-> "discarded"]
    /\ runs[3] = [kind |-> "staged", at |-> "posted"]
    /\ delivered = <<Post(3, "staged", "result", 3)>>

====
